---- MODULE Spec2Model ----
(***************************************************************************)
(* A model of the personal-finance backend: the relational rows of         *)
(* src/src/database/models.py, the request handlers of                     *)
(* src/src/api/routes.py and the budget service of                         *)
(* src/src/services/budget_service.py.                                     *)
(*                                                                         *)
(* Conventions                                                             *)
(*  - a table is a sequence of rows in insertion order; no handler deletes *)
(*    a row, so the autoincrement id of a row is its position;             *)
(*  - a category name is a string; an alert title is the tuple of the      *)
(*    strings its f-string joins; Chars spells a string out as characters  *)
(*    where the code looks inside it (the LIKE of check_budget_alert);     *)
(*  - money is an integer amount; alert_threshold is held in percent       *)
(*    (0.8 is 80), so the code's alert_threshold * 100 is the field        *)
(*    itself; floating point rounding is outside the model;                *)
(*  - time is a count of ticks of the server's local wall clock, on a      *)
(*    scaled calendar (TicksPerDay, DaysPerWeek, DaysPerMonth,             *)
(*    MonthsPerYear); datetime.utcnow() is the local clock minus tzOffset; *)
(*  - databases: the default SQLite backend (database.py:10), which does   *)
(*    not enforce foreign keys and whose LIKE folds ASCII case;            *)
(*  - a category id / alert id of 0 stands for None;                       *)
(*  - created_at / updated_at of users, transactions and budgets are never *)
(*    read back by any handler and are left out; Alert.created_at is kept. *)
(*  - resp is the HTTP response of the last request.                       *)
(***************************************************************************)
EXTENDS Integers, Sequences, FiniteSets, TLC

VARIABLES
    users,          \* table users
    categories,     \* table categories
    transactions,   \* table transactions
    budgets,        \* table budgets
    alerts,         \* table alerts
    now,            \* datetime.now(): the server's local wall clock, in ticks
    tzOffset,       \* local time minus UTC, in ticks (fixed by the host)
    exchange_rates, \* CurrencyService.exchange_rates: the cached tables
    last_update,    \* CurrencyService.last_update (-1 is None)
    regs,           \* requests in flight between their commits (register, and
                    \* create_transaction when run in steps)
    resp,           \* the response of the last request
    categorizer,    \* routes.categorizer: the TransactionCategorizer object
    model_file      \* the file data/models/categorizer.pkl

vars == << users, categories, transactions, budgets, alerts, now, tzOffset,
           exchange_rates, last_update, regs, resp, categorizer, model_file >>

\* the classifier: the object of the running process and its file
ml == << categorizer, model_file >>

db == << users, categories, transactions, budgets, alerts >>

(***************************************************************************)
(* The scaled calendar                                                     *)
(***************************************************************************)
TicksPerDay == 2
DaysPerWeek == 2
DaysPerMonth == 3
MonthsPerYear == 2

(***************************************************************************)
(* Text helpers                                                            *)
(***************************************************************************)
UpperCase == {"A","B","C","D","E","F","G","H","I","J","K","L","M",
              "N","O","P","Q","R","S","T","U","V","W","X","Y","Z"}

Lower(c) ==
    IF c \notin UpperCase THEN c ELSE
    IF c = "A" THEN "a" ELSE IF c = "B" THEN "b" ELSE IF c = "C" THEN "c" ELSE
    IF c = "D" THEN "d" ELSE IF c = "E" THEN "e" ELSE IF c = "F" THEN "f" ELSE
    IF c = "G" THEN "g" ELSE IF c = "H" THEN "h" ELSE IF c = "I" THEN "i" ELSE
    IF c = "J" THEN "j" ELSE IF c = "K" THEN "k" ELSE IF c = "L" THEN "l" ELSE
    IF c = "M" THEN "m" ELSE IF c = "N" THEN "n" ELSE IF c = "O" THEN "o" ELSE
    IF c = "P" THEN "p" ELSE IF c = "Q" THEN "q" ELSE IF c = "R" THEN "r" ELSE
    IF c = "S" THEN "s" ELSE IF c = "T" THEN "t" ELSE IF c = "U" THEN "u" ELSE
    IF c = "V" THEN "v" ELSE IF c = "W" THEN "w" ELSE IF c = "X" THEN "x" ELSE
    IF c = "Y" THEN "y" ELSE "z"

\* SQL LIKE as SQLite evaluates it: % is any run of characters, _ any one
\* character, letters compare without regard to ASCII case.
RECURSIVE SqlLike(_, _)
SqlLike(pattern, s) ==
    IF pattern = << >> THEN s = << >>
    ELSE IF Head(pattern) = "%"
         THEN \/ SqlLike(Tail(pattern), s)
              \/ (s # << >> /\ SqlLike(pattern, Tail(s)))
    ELSE /\ s # << >>
         /\ (Head(pattern) = "_" \/ Lower(Head(pattern)) = Lower(Head(s)))
         /\ SqlLike(Tail(pattern), Tail(s))

\* Column.contains(other): column LIKE '%' || other || '%'
contains(column, other) == SqlLike(<<"%">> \o other \o <<"%">>, column)

\* the characters of the strings that occur in names and titles
Chars(str) ==
    CASE str = "Food & Dining" -> <<"F","o","o","d"," ","&"," ","D","i","n","i","n","g">>
      [] str = "Shopping" -> <<"S","h","o","p","p","i","n","g">>
      [] str = "Transportation" -> <<"T","r","a","n","s","p","o","r","t","a","t","i","o","n">>
      [] str = "Bills & Utilities" -> <<"B","i","l","l","s"," ","&"," ","U","t","i","l","i","t","i","e","s">>
      [] str = "Entertainment" -> <<"E","n","t","e","r","t","a","i","n","m","e","n","t">>
      [] str = "Healthcare" -> <<"H","e","a","l","t","h","c","a","r","e">>
      [] str = "Education" -> <<"E","d","u","c","a","t","i","o","n">>
      [] str = "Travel" -> <<"T","r","a","v","e","l">>
      [] str = "Groceries" -> <<"G","r","o","c","e","r","i","e","s">>
      [] str = "ATM/Cash" -> <<"A","T","M","/","C","a","s","h">>
      [] str = "Income" -> <<"I","n","c","o","m","e">>
      [] str = "Others" -> <<"O","t","h","e","r","s">>
      [] str = " Budget " -> <<" ","B","u","d","g","e","t"," ">>
      [] str = "Exceeded" -> <<"E","x","c","e","e","d","e","d">>
      [] str = "Warning" -> <<"W","a","r","n","i","n","g">>
      [] str = "!" -> <<"!">>
      [] str = "Budget" -> <<"B","u","d","g","e","t">>
      [] str = "Food" -> <<"F","o","o","d">>
      [] str = "food" -> <<"f","o","o","d">>
      [] str = "F_od" -> <<"F","_","o","d">>
      [] str = "Rent" -> <<"R","e","n","t">>

\* the characters of a title (a tuple of strings)
RECURSIVE TitleChars(_)
TitleChars(title) ==
    IF title = << >> THEN << >> ELSE Chars(Head(title)) \o TitleChars(Tail(title))

\* status.title()
StatusTitle(status) == IF status = "exceeded" THEN "Exceeded" ELSE "Warning"

\* f"{name} Budget {status.title()}!"
AlertTitle(name, status) == << name, " Budget ", StatusTitle(status), "!" >>

(***************************************************************************)
(* TransactionCategorizer: the category list and the training labels       *)
(***************************************************************************)
categories_list ==
    << "Food & Dining", "Shopping", "Transportation", "Bills & Utilities", "Entertainment",
       "Healthcare", "Education", "Travel", "Groceries", "ATM/Cash", "Income", "Others" >>

\* the labels of training_data: what the fitted classifier can answer
training_labels ==
    { categories_list[i] : i \in {1, 2, 3, 4, 5, 6, 9, 10, 11} }

(***************************************************************************)
(* Table helpers                                                           *)
(***************************************************************************)
Rows(table) == { table[i] : i \in 1..Len(table) }

\* query.filter(...).first() on a table scanned in insertion order:
\* the index of the first row satisfying P, or 0 when .first() is None
First(table, P(_)) ==
    IF \E i \in 1..Len(table) : P(table[i])
    THEN CHOOSE i \in 1..Len(table) :
            P(table[i]) /\ \A j \in 1..(i - 1) : ~P(table[j])
    ELSE 0

\* query.filter(...).all(): the rows satisfying P, in insertion order
Filter(table, P(_)) == SelectSeq(table, P)

\* query.offset(skip).limit(limit)
OffsetLimit(rows, skip, limit) ==
    SubSeq(rows, skip + 1, IF skip + limit < Len(rows) THEN skip + limit ELSE Len(rows))

UserIds == { users[i].id : i \in 1..Len(users) }

(***************************************************************************)
(* BudgetService                                                           *)
(***************************************************************************)
TicksPerMonth == DaysPerMonth * TicksPerDay
TicksPerYear == MonthsPerYear * TicksPerMonth

\* get_budget_period_dates(period) evaluated when the local clock shows t
get_budget_period_dates(period, t) ==
    IF period = "monthly" THEN
        LET start_date == (t \div TicksPerMonth) * TicksPerMonth
            \* next_month - timedelta(days=next_month.day): the last day of the
            \* month at 00:00:00
        IN  [start_date |-> start_date,
             end_date |-> start_date + (DaysPerMonth - 1) * TicksPerDay]
    ELSE IF period = "weekly" THEN
        LET day == t \div TicksPerDay
            days_since_monday == day % DaysPerWeek
            start_date == (day - days_since_monday) * TicksPerDay
        IN  [start_date |-> start_date,
             end_date |-> start_date + DaysPerWeek * TicksPerDay - 1]
    ELSE
        LET start_date == (t \div TicksPerYear) * TicksPerYear
        IN  [start_date |-> start_date,
             end_date |-> start_date + TicksPerYear - 1]

RECURSIVE SumAmount(_)
SumAmount(rows) ==
    IF rows = << >> THEN 0 ELSE Head(rows).amount + SumAmount(Tail(rows))

\* get_spent_amount: func.sum(Transaction.amount) over the user's expenses of
\* the category dated within [start_date, end_date]
get_spent_amount(txs, user_id, category_id, start_date, end_date) ==
    LET InPeriod(t) == /\ t.user_id = user_id
                       /\ t.category_id = category_id
                       /\ t.transaction_type = "expense"
                       /\ t.transaction_date >= start_date
                       /\ t.transaction_date <= end_date
    IN  SumAmount(Filter(txs, InPeriod))

\* (spent / budget.amount) * 100 if budget.amount > 0 else 0, rounded down to a
\* whole percent (the comparisons below are against whole percents)
Percentage(spent, amount) ==
    IF amount > 0 THEN (spent * 100) \div amount ELSE 0

\* budget.category: the row the relationship loads, 0 when there is none
CategoryOf(category_id) ==
    First(categories, LAMBDA c : c.id = category_id)

\* the active budget check_budget_alert works on (index into budgets, or 0)
ActiveBudget(bs, user_id, category_id) ==
    First(bs, LAMBDA b : /\ b.user_id = user_id
                          /\ b.category_id = category_id
                          /\ b.is_active)

\* the existing-alert query of check_budget_alert
ExistingAlert(user_id, start_date, name) ==
    First(alerts, LAMBDA a : /\ a.user_id = user_id
                              /\ a.alert_type = "budget_exceed"
                              /\ a.created_at >= start_date
                              /\ contains(TitleChars(a.title), Chars(name)))

\* check_budget_alert(user_id, category_id) run on the tables cats/txs/bs and
\* the alerts table: outcome "none" (returns None), "alert" (inserts the row
\* .alert and returns it) or "raise" (budget.category is None: AttributeError)
check_budget_alert(txs, bs, user_id, category_id) ==
    LET bi == ActiveBudget(bs, user_id, category_id) IN
    IF bi = 0 THEN [outcome |-> "none"]
    ELSE
    LET budget == bs[bi]
        period == get_budget_period_dates(budget.period, now)
        spent == get_spent_amount(txs, user_id, category_id,
                                  period.start_date, period.end_date)
        percentage == Percentage(spent, budget.amount)
        ci == CategoryOf(budget.category_id)
    IN  IF percentage >= budget.alert_threshold
        THEN IF ci = 0 THEN [outcome |-> "raise"]
             ELSE IF ExistingAlert(user_id, period.start_date, categories[ci].name) # 0
                  THEN [outcome |-> "none"]
             ELSE [outcome |-> "alert",
                   alert |-> [id |-> Len(alerts) + 1,
                              user_id |-> user_id,
                              alert_type |-> "budget_exceed",
                              title |-> AlertTitle(categories[ci].name,
                                           IF percentage >= 100 THEN "exceeded"
                                           ELSE "warning"),
                              message |-> [spent |-> spent,
                                           percentage |-> percentage,
                                           amount |-> budget.amount,
                                           period |-> budget.period],
                              is_read |-> FALSE,
                              created_at |-> now - tzOffset,
                              \* not a column: the category the check ran for
                              for_category |-> category_id]]
        ELSE [outcome |-> "none"]


\* get_budget_status that warns only strictly above the threshold
get_budget_status_strict(bi) ==
    LET budget == budgets[bi]
        period == get_budget_period_dates(budget.period, now)
        spent == get_spent_amount(transactions, budget.user_id, budget.category_id,
                                  period.start_date, period.end_date)
        percentage == Percentage(spent, budget.amount)
        ci == CategoryOf(budget.category_id)
    IN  [budget_id |-> budget.id,
         category_name |-> IF ci = 0 THEN << >> ELSE categories[ci].name,
         budget_amount |-> budget.amount,
         spent_amount |-> spent,
         remaining_amount |-> budget.amount - spent,
         percentage_used |-> percentage,
         days_left |-> ((period.end_date - now) \div TicksPerDay) + 1,
         status |-> IF percentage >= 100 THEN "exceeded"
                    ELSE IF percentage > budget.alert_threshold THEN "warning"
                    ELSE "safe"]

\* get_budget_status(budget_id): the BudgetStatus the service computes for the
\* budget row at index bi of budgets (when the category row is missing,
\* budget.category.name raises and the caller answers 500)
get_budget_status(bi) ==
    LET budget == budgets[bi]
        period == get_budget_period_dates(budget.period, now)
        spent == get_spent_amount(transactions, budget.user_id, budget.category_id,
                                  period.start_date, period.end_date)
        remaining == budget.amount - spent
        percentage == Percentage(spent, budget.amount)
        status == IF percentage >= 100 THEN "exceeded"
                  ELSE IF percentage >= budget.alert_threshold THEN "warning"
                  ELSE "safe"
        ci == CategoryOf(budget.category_id)
    IN  [budget_id |-> budget.id,
         category_name |-> IF ci = 0 THEN << >> ELSE categories[ci].name,
         budget_amount |-> budget.amount,
         spent_amount |-> spent,
         remaining_amount |-> remaining,
         percentage_used |-> percentage,
         days_left |-> ((period.end_date - now) \div TicksPerDay) + 1,
         status |-> status]

(***************************************************************************)
(* CurrencyService                                                         *)
(***************************************************************************)
CacheTtl == 1   \* timedelta(hours=1): a tick is an hour

\* the INR table of get_exchange_rates, in units of 1/10000
InrTable(cur) ==
    IF cur = "INR" THEN 10000 ELSE IF cur = "USD" THEN 120
    ELSE IF cur = "EUR" THEN 110 ELSE IF cur = "GBP" THEN 96
    ELSE IF cur = "AED" THEN 440 ELSE IF cur = "SGD" THEN 160
    ELSE IF cur = "CAD" THEN 160 ELSE IF cur = "AUD" THEN 180
    ELSE IF cur = "JPY" THEN 17500 ELSE IF cur = "CNY" THEN 860
    ELSE 10000  \* rates.get(base_currency, 1)

\* get_exchange_rates(base)["INR"] as a fraction num/den
RateToInr(base) ==
    IF base = "INR" THEN [num |-> 1, den |-> 1]
    ELSE IF base = "USD" THEN [num |-> 8312, den |-> 100]
    ELSE [num |-> 10000, den |-> InrTable(base)]

\* self.exchange_rates is modelled as a set of entries [base, stored]: the
\* base currencies that have a table, each with the time its table was stored
\* (the time is not part of the dictionary: the code keeps last_update only)
StoredAt(cache, base) == (CHOOSE e \in cache : e.base = base).stored

\* self.exchange_rates[base_currency] = rates
Store(cache, base, t) ==
    { e \in cache : e.base # base } \cup { [base |-> base, stored |-> t] }

\* whether get_exchange_rates(base) answers from the cache
CacheHit(cache, updated, base) ==
    /\ updated # -1
    /\ now - updated < CacheTtl
    /\ \E e \in cache : e.base = base

\* get_exchange_rates(base): << exchange_rates, last_update, stored >>, the
\* cache after the call and the time the returned table was stored
get_exchange_rates(cache, updated, base) ==
    IF CacheHit(cache, updated, base) THEN << cache, updated, StoredAt(cache, base) >>
    ELSE IF base \in {"INR", "USD"} THEN << Store(cache, base, now), now, now >>
    ELSE \* the nested get_exchange_rates("INR"), then the store of base
         LET inr == IF CacheHit(cache, updated, "INR") THEN cache
                    ELSE Store(cache, "INR", now)
         IN  << Store(inr, base, now), now, now >>

\* convert_to_inr(amount, from_currency), rounded down to the money unit
convert_to_inr(amount, from_currency) ==
    IF from_currency = "INR" THEN amount
    ELSE (amount * RateToInr(from_currency).num) \div RateToInr(from_currency).den

(***************************************************************************)
(* simple_auth (not among the sources: modelled from its uses in routes.py)*)
(***************************************************************************)
get_password_hash(password) == << "hash", password >>

verify_password(password, hashed) == hashed = get_password_hash(password)

\* authenticate_user(db, username, password): index of the user, 0 for False
authenticate_user(username, password) ==
    LET ui == First(users, LAMBDA u : u.username = username)
    IN  IF ui # 0 /\ verify_password(password, users[ui].hashed_password)
        THEN ui ELSE 0

\* create_access_token(data={"sub": username}, expires_delta)
create_access_token(username) == [sub |-> username]

\* get_current_user: the bearer of a valid token is a row of users
CurrentUsers == UserIds

(***************************************************************************)
(* Responses                                                               *)
(***************************************************************************)
\* a response: the handler, the calling user (0: no bearer token), the request
\* it answers, the HTTP status, the error detail and the JSON body
Ok(op, caller, req, body) ==
    [op |-> op, caller |-> caller, req |-> req, status |-> 200, detail |-> "",
     body |-> body]

Err(op, caller, req, status, detail) ==
    [op |-> op, caller |-> caller, req |-> req, status |-> status,
     detail |-> detail, body |-> << >>]


(***************************************************************************)
(* SMSParser.  An SMS is a sequence of tokens [k, v, p]:                   *)
(*   "sym"  a currency marker: "INR", "Rs", "$", "USD", ...                *)
(*   "num"  a number written in digits, v its float() value                *)
(*   "date" a date, v the day it names (-1: no date of the calendar, as    *)
(*          31-02-2024); p = 1 written dd-mm-yyyy, p = 2 written           *)
(*          "dd Month yyyy"                                                *)
(*   "card" a card or account reference with the four digits v; p = 1      *)
(*          "card ending dddd", 2 "card *dddd", 3 "Card XXdddd",           *)
(*          4 "a/c XXdddd"                                                 *)
(*   "word" any other word, v its lower-case text                          *)
(*   "stop" text outside the merchant character class, such as ":"         *)
(* A pattern  MARKER\s*(number)  matches a marker directly followed by a   *)
(* number; re.search returns the leftmost match.                           *)
(***************************************************************************)
\* leftmost position of a marker of `markers` directly followed by a number
\* (0: no match)
SearchMarker(sms, markers) ==
    First([i \in 1..Len(sms) |-> i],
          LAMBDA i : /\ i < Len(sms)
                     /\ sms[i].k = "sym" /\ sms[i].v \in markers
                     /\ sms[i + 1].k = "num")

\* leftmost match of  w1\s*...\s*MARKER\s*(number)  for the words ws
SearchWordsMarker(sms, ws, markers) ==
    First([i \in 1..Len(sms) |-> i],
          LAMBDA i : /\ i + Len(ws) < Len(sms)
                     /\ \A j \in 1..Len(ws) :
                           sms[i + j - 1].k = "word" /\ sms[i + j - 1].v = ws[j]
                     /\ sms[i + Len(ws)].k = "sym" /\ sms[i + Len(ws)].v \in markers
                     /\ sms[i + Len(ws) + 1].k = "num")

\* self.patterns['amount'], in list order: the position of the number each
\* pattern captures (0: the pattern does not match)
AmountPatternHits(sms) ==
    LET p1 == SearchMarker(sms, {"INR"})
        p2 == SearchMarker(sms, {"Rs"})
        p3 == SearchWordsMarker(sms, << "for" >>, {"Rs"})
        p4 == SearchWordsMarker(sms, << "amount", "of" >>, {"Rs"})
    IN  << IF p1 = 0 THEN 0 ELSE p1 + 1,
           IF p2 = 0 THEN 0 ELSE p2 + 1,
           IF p3 = 0 THEN 0 ELSE p3 + 2,
           IF p4 = 0 THEN 0 ELSE p4 + 3 >>

\* self.currency_patterns, in dict and list order
currency_patterns ==
    << [currency |-> "USD", markers |-> {"$"}],   [currency |-> "USD", markers |-> {"USD"}],
       [currency |-> "EUR", markers |-> {"EUR_SIGN"}], [currency |-> "EUR", markers |-> {"EUR"}],
       [currency |-> "GBP", markers |-> {"GBP_SIGN"}], [currency |-> "GBP", markers |-> {"GBP"}],
       [currency |-> "AED", markers |-> {"AED"}], [currency |-> "AED", markers |-> {"Dh", "Dhs"}],
       [currency |-> "INR", markers |-> {"INR_SIGN"}], [currency |-> "INR", markers |-> {"Rs"}],
       [currency |-> "INR", markers |-> {"INR"}] >>

\* a cascade that keeps the last pattern that matches
FirstHit_last(hits) ==
    IF \A i \in 1..Len(hits) : hits[i] = 0 THEN 0
    ELSE CHOOSE i \in 1..Len(hits) :
            hits[i] # 0 /\ \A j \in (i + 1)..Len(hits) : hits[j] = 0

\* the first pattern of a cascade that matches (0: none)
FirstHit(hits) == First(hits, LAMBDA h : h # 0)

\* extract_currency_and_amount(text): [currency, amount], amount -1 for None
extract_currency_and_amount(sms) ==
    LET hits == [i \in 1..Len(currency_patterns) |->
                    SearchMarker(sms, currency_patterns[i].markers)]
        h == FirstHit(hits)
        a == FirstHit(AmountPatternHits(sms))
    IN  IF h # 0
        THEN [currency |-> currency_patterns[h].currency, amount |-> sms[hits[h] + 1].v]
        ELSE IF a # 0
        THEN [currency |-> "INR", amount |-> sms[AmountPatternHits(sms)[a]].v]
        ELSE [currency |-> "NONE", amount |-> -1]

debit_keywords == {"debited", "withdrawn", "paid", "spent", "purchase", "debit"}
credit_keywords == {"credited", "received", "deposited", "refund", "credit", "salary"}

HasWord(sms, ws) == \E i \in 1..Len(sms) : sms[i].k = "word" /\ sms[i].v \in ws

\* merchant cascade: PREP\s+(text)(?:\s+STOP|$) with PREP and its stop words;
\* the captured text is the shortest run of merchant-class tokens after the
\* leftmost PREP that is followed by a stop word or by the end of the text
\* the last two patterns have no terminator: their capture is greedy
merchant_patterns ==
    << [prep |-> << "at" >>, open |-> FALSE, stops |-> {"on", "avl", "."}],
       [prep |-> << "to" >>, open |-> FALSE, stops |-> {"on", "from", "."}],
       [prep |-> << "from" >>, open |-> FALSE, stops |-> {"on", "bal", "."}],
       [prep |-> << "for", "payment", "at" >>, open |-> TRUE, stops |-> {}],
       [prep |-> << "withdrawn", "from", "atm", "at" >>, open |-> TRUE, stops |-> {}] >>

\* the text of a token lies within [A-Za-z0-9\s&\-\.]
InClass(tok) ==
    \/ tok.k \in {"word", "num", "date"}
    \/ tok.k = "sym" /\ tok.v \in {"INR", "Rs", "USD", "EUR", "GBP", "AED", "Dh", "Dhs"}
    \/ tok.k = "card" /\ tok.p \in {1, 3}

\* the capture of one merchant pattern started at position i: [from, to] or
\* << >> when it does not match there
MerchantAt(sms, pat, i) ==
    LET n == Len(pat.prep)
        from == i + n
    IN
    IF ~( /\ from <= Len(sms)
          /\ \A j \in 1..n : sms[i + j - 1].k = "word" /\ sms[i + j - 1].v = pat.prep[j]
          /\ InClass(sms[from]) )
    THEN << >>
    ELSE
    LET Runs == { e \in from..Len(sms) : \A j \in from..e : InClass(sms[j]) }
        Ends == { e \in Runs :
                    \/ e = Len(sms)
                    \/ (sms[e + 1].k = "word" /\ sms[e + 1].v \in pat.stops) }
    IN  IF pat.open
        THEN << from, CHOOSE e \in Runs : \A f \in Runs : f <= e >>
        ELSE IF Ends = {} THEN << >>
        ELSE << from, CHOOSE e \in Ends : \A f \in Ends : e <= f >>

MerchantHit(sms, pat) ==
    LET i == First([j \in 1..Len(sms) |-> j], LAMBDA j : MerchantAt(sms, pat, j) # << >>)
    IN  IF i = 0 THEN << >> ELSE MerchantAt(sms, pat, i)

WordsOf(sms, from, to) == [j \in 1..(to - from + 1) |-> sms[from + j - 1].v]

\* self.patterns['card_last_digits'], in list order: the position of the
\* reference each pattern matches first (0: the pattern does not match)
CardPatternHits(sms) ==
    [i \in 1..4 |-> First([j \in 1..Len(sms) |-> j],
                          LAMBDA j : sms[j].k = "card" /\ sms[j].p = i)]

\* \d{1,2}\s+\w+\s+\d{2,4} also matches a number, a word and a number of two
\* digits or more that follow each other
NumberWordNumber(sms, j) ==
    /\ j + 2 <= Len(sms)
    /\ sms[j].k = "num"
    /\ sms[j + 1].k = "word" \/ (sms[j + 1].k = "sym" /\ InClass(sms[j + 1]))
    /\ sms[j + 2].k = "num" /\ sms[j + 2].v >= 10

\* self.patterns['date'], in list order: the position where each pattern
\* matches first (0: the pattern does not match)
DatePatternHits(sms) ==
    LET pos == [j \in 1..Len(sms) |-> j]
    IN  << First(pos, LAMBDA j : sms[j].k = "date" /\ sms[j].p = 1),
           First(pos, LAMBDA j : \/ sms[j].k = "date" /\ sms[j].p = 2
                                 \/ NumberWordNumber(sms, j)),
           First(pos, LAMBDA j : /\ j < Len(sms)
                                 /\ sms[j].k = "word" /\ sms[j].v = "on"
                                 /\ sms[j + 1].k = "date" /\ sms[j + 1].p = 1) >>

\* the token a date pattern captures when it matches at position j
DateCapture(sms, i, j) == IF i = 3 THEN sms[j + 1] ELSE sms[j]

\* _parse_date(date_str): the day, or -1 (None) when no format fits
_parse_date(tok) == IF tok.k = "date" THEN tok.v ELSE -1

\* parse_sms(sms_text): amount -1, date -1, card_last_digits -1, merchant
\* << >> and type "NONE" stand for None
parse_sms(sms) ==
    LET ca == extract_currency_and_amount(sms)
        a == FirstHit(AmountPatternHits(sms))
        amount == IF a # 0 THEN sms[AmountPatternHits(sms)[a]].v
                  ELSE IF ca.amount > 0 THEN ca.amount  \* if amount:
                  ELSE -1
        mh == [i \in 1..Len(merchant_patterns) |-> MerchantHit(sms, merchant_patterns[i])]
        m == First(mh, LAMBDA h : h # << >>)
        c == FirstHit(CardPatternHits(sms))
        d == FirstHit(DatePatternHits(sms))
    IN  [amount |-> amount,
         currency |-> IF ca.amount > 0 THEN ca.currency ELSE "INR",
         type |-> IF HasWord(sms, debit_keywords) THEN "debit"
                  ELSE IF HasWord(sms, credit_keywords) THEN "credit"
                  ELSE "NONE",
         merchant |-> IF m = 0 THEN << >> ELSE WordsOf(sms, mh[m][1], mh[m][2]),
         card_last_digits |-> IF c = 0 THEN -1 ELSE sms[CardPatternHits(sms)[c]].v,
         date |-> IF d = 0 THEN -1
                  ELSE _parse_date(DateCapture(sms, d, DatePatternHits(sms)[d])),
         raw_text |-> sms]

(***************************************************************************)
(* TransactionCategorizer.  A fitted model is the set of labels it was fit  *)
(* with (its classes); which of them it answers for a text is not modelled. *)
(* The file holds the model that was pickled into it.                       *)
(***************************************************************************)
NoFile == [exists |-> FALSE, model |-> {}]

\* save_model(): the file now holds self.model
save_model(c) == [exists |-> TRUE, model |-> c.model]

\* load_model(): self.model = pickle.load(f)
load_model(c, file) == [c EXCEPT !.has_model = TRUE, !.model = file.model]

\* train(): fit on self.training_data, then save_model(); the pair of the
\* object and the file afterwards.  trainings counts the calls of train()
\* on this object
train(c) ==
    LET t == [c EXCEPT !.has_model = TRUE, !.model = c.training_data,
                       !.trainings = c.trainings + 1]
    IN  << t, save_model(t) >>

\* _initialize_model(): load the file when it exists, train otherwise
_initialize_model(c, file) ==
    IF file.exists THEN << load_model(c, file), file >> ELSE train(c)

\* __init__ before _initialize_model(): no model, the fixed training set
NewCategorizer ==
    [alive |-> TRUE, has_model |-> FALSE, model |-> {},
     training_data |-> training_labels, trainings |-> 0]

\* no process is running
NoCategorizer ==
    [alive |-> FALSE, has_model |-> FALSE, model |-> {}, training_data |-> {},
     trainings |-> 0]

\* categorizer.predict(description): the labels the call can answer; a
\* missing model is trained first
PredictOutcomes(description) ==
    IF categorizer.has_model THEN categorizer.model ELSE categorizer.training_data

\* categorizer = TransactionCategorizer() at import of routes.py
TransactionCategorizer ==
    /\ \E r \in {_initialize_model(NewCategorizer, model_file)} :
          /\ categorizer' = r[1]
          /\ model_file' = r[2]
    /\ resp' = Ok("TransactionCategorizer", 0, << >>, << >>)
    /\ UNCHANGED << db, now, tzOffset, exchange_rates, last_update, regs >>

\* categorizer.predict(description), the label kept in resp
predict(description) ==
    /\ categorizer.alive
    /\ \E category \in PredictOutcomes(description) :
          resp' = Ok("predict", 0, description, category)
    /\ \E r \in {IF categorizer.has_model THEN << categorizer, model_file >>
                  ELSE train(categorizer)} :
          /\ categorizer' = r[1]
          /\ model_file' = r[2]
    /\ UNCHANGED << db, now, tzOffset, exchange_rates, last_update, regs >>

\* categorizer.add_training_data(description, category)
add_training_data(description, category) ==
    /\ categorizer.alive
    /\ \E r \in {train([categorizer EXCEPT !.training_data = @ \cup {category}])} :
          /\ categorizer' = r[1]
          /\ model_file' = r[2]
    /\ resp' = Ok("add_training_data", 0, << description, category >>, << >>)
    /\ UNCHANGED << db, now, tzOffset, exchange_rates, last_update, regs >>


(***************************************************************************)
(* Request handlers of routes.py.  Every handler answers through resp.     *)
(***************************************************************************)
NewUser(email, username, password) ==
    [id |-> Len(users) + 1, email |-> email, username |-> username,
     hashed_password |-> get_password_hash(password), is_active |-> TRUE]

\* default categories that leave the last name of the list ('Others') out
DefaultCategories_without_others(cats, uid) ==
    [i \in 1..(Len(categories_list) - 1) |->
        [id |-> Len(cats) + i, name |-> categories_list[i], user_id |-> uid,
         is_default |-> TRUE]]

\* the default category rows register adds for user uid to the table cats
DefaultCategories(cats, uid) ==
    [i \in 1..Len(categories_list) |->
        [id |-> Len(cats) + i, name |-> categories_list[i], user_id |-> uid,
         is_default |-> TRUE]]

\* the existence query of register looking at the email only
UserTaken_email_only(email, username) ==
    First(users, LAMBDA u : u.email = email) # 0

UserTaken(email, username) ==
    First(users, LAMBDA u : u.email = email \/ u.username = username) # 0

\* POST /register, run without another request in between
register(email, username, password) ==
    /\ regs = << >>
    /\ IF UserTaken(email, username)
       THEN /\ resp' = Err("register", 0, [email |-> email, username |-> username], 400,
                           "Email or username already registered")
            /\ UNCHANGED << users, categories >>
       ELSE /\ users' = Append(users, NewUser(email, username, password))
            /\ categories' = categories \o DefaultCategories(categories, Len(users) + 1)
            /\ resp' = Ok("register", 0, [email |-> email, username |-> username],
                          [id |-> Len(users) + 1, email |-> email,
                           username |-> username])
    /\ UNCHANGED << transactions, budgets, alerts, now, tzOffset, ml, exchange_rates,
                    last_update, regs >>

\* POST /register in steps, for requests that overlap: the existence query,
\* then the commit of the user row, then the commit of the category rows.
\* A request in flight is [email, username, password, pc, user_id].
register_query(email, username, password) ==
    /\ IF UserTaken(email, username)
       THEN /\ resp' = Err("register", 0, [email |-> email, username |-> username], 400,
                           "Email or username already registered")
            /\ UNCHANGED regs
       ELSE /\ regs' = Append(regs, [email |-> email, username |-> username,
                                     password |-> password, pc |-> "commit_user",
                                     user_id |-> 0])
            /\ UNCHANGED resp
    /\ UNCHANGED << db, now, tzOffset, ml, exchange_rates, last_update >>

RemoveAt(seq, i) == SubSeq(seq, 1, i - 1) \o SubSeq(seq, i + 1, Len(seq))

\* db.add(db_user); db.commit(): the unique indexes on email and username
\* reject a duplicate (IntegrityError, answered 500 after db.rollback())
register_commit_user(i) ==
    /\ i \in 1..Len(regs)
    /\ regs[i].pc = "commit_user"
    /\ LET r == regs[i] IN
       IF UserTaken(r.email, r.username)
       THEN /\ resp' = Err("register", 0, [email |-> r.email, username |-> r.username],
                           500, "IntegrityError")
            /\ regs' = RemoveAt(regs, i)
            /\ UNCHANGED users
       ELSE /\ users' = Append(users, NewUser(r.email, r.username, r.password))
            /\ regs' = [regs EXCEPT ![i].pc = "commit_categories",
                                    ![i].user_id = Len(users) + 1]
            /\ UNCHANGED resp
    /\ UNCHANGED << categories, transactions, budgets, alerts, now, tzOffset, ml,
                    exchange_rates, last_update >>

register_commit_categories(i) ==
    /\ i \in 1..Len(regs)
    /\ regs[i].pc = "commit_categories"
    /\ categories' = categories \o DefaultCategories(categories, regs[i].user_id)
    /\ resp' = Ok("register", 0, [email |-> regs[i].email, username |-> regs[i].username],
                  [id |-> regs[i].user_id, email |-> regs[i].email,
                   username |-> regs[i].username])
    /\ regs' = RemoveAt(regs, i)
    /\ UNCHANGED << users, transactions, budgets, alerts, now, tzOffset, ml,
                    exchange_rates, last_update >>

\* the commit of the category rows raises (the database is locked or gone):
\* except Exception rolls the uncommitted category rows back and answers
\* 500; the user row was committed before
register_commit_categories_fails(i) ==
    /\ i \in 1..Len(regs)
    /\ regs[i].pc = "commit_categories"
    /\ resp' = Err("register", 0, [email |-> regs[i].email, username |-> regs[i].username],
                   500, "OperationalError")
    /\ regs' = RemoveAt(regs, i)
    /\ UNCHANGED << db, now, tzOffset, ml, exchange_rates, last_update >>

\* login that looks the username up and never verifies the password
login_any_password(username, password) ==
    /\ LET ui == First(users, LAMBDA u : u.username = username) IN
       IF ui = 0
       THEN resp' = Err("login", 0, [username |-> username, password |-> password],
                         401, "Incorrect username or password")
       ELSE resp' = Ok("login", 0, [username |-> username, password |-> password],
                       [access_token |-> create_access_token(users[ui].username),
                        token_type |-> "bearer"])
    /\ UNCHANGED << db, now, tzOffset, ml, exchange_rates, last_update, regs >>

\* POST /login
login(username, password) ==
    /\ LET ui == authenticate_user(username, password) IN
       IF ui = 0
       THEN resp' = Err("login", 0, [username |-> username, password |-> password],
                         401, "Incorrect username or password")
       ELSE resp' = Ok("login", 0, [username |-> username, password |-> password],
                       [access_token |-> create_access_token(users[ui].username),
                        token_type |-> "bearer"])
    /\ UNCHANGED << db, now, tzOffset, ml, exchange_rates, last_update, regs >>

\* the row create_transaction inserts
NewTransaction(uid, t) ==
    [id |-> Len(transactions) + 1,
     user_id |-> uid,
     amount |-> t.amount,
     currency |-> t.currency,
     amount_inr |-> convert_to_inr(t.amount, t.currency),
     exchange_rate |-> RateToInr(t.currency),
     description |-> t.description,
     category_id |-> t.category_id,
     transaction_date |-> t.transaction_date,
     transaction_type |-> t.transaction_type,
     source |-> t.source,
     raw_text |-> << >>]

\* the cache after the conversion calls of a handler for `currency`
\* (convert_to_inr, then get_exchange_rates)
CacheAfter(currency) ==
    IF currency = "INR" THEN << exchange_rates, last_update >>
    ELSE LET c1 == get_exchange_rates(exchange_rates, last_update, currency)
         IN  get_exchange_rates(c1[1], c1[2], currency)

\* POST /transactions/ by user uid with body t
create_transaction(uid, t) ==
    /\ uid \in CurrentUsers
    /\ transactions' = Append(transactions, NewTransaction(uid, t))
    /\ \E chk \in { IF t.transaction_type = "expense"
                    THEN check_budget_alert(transactions', budgets, uid, t.category_id)
                    ELSE [outcome |-> "none"] } :
          /\ alerts' = IF chk.outcome = "alert" THEN Append(alerts, chk.alert)
                       ELSE alerts
          \* an exception of the check leaves the committed row and answers 500
          /\ resp' = IF chk.outcome = "raise"
                     THEN Err("create_transaction", uid, t, 500, "Internal Server Error")
                     ELSE Ok("create_transaction", uid, t, [id |-> Len(transactions) + 1])
    /\ exchange_rates' = CacheAfter(t.currency)[1]
    /\ last_update' = CacheAfter(t.currency)[2]
    /\ UNCHANGED << users, categories, budgets, now, tzOffset, ml, regs >>

\* POST /transactions/ in steps, for requests that overlap, each with its own
\* database session: the commit of the transaction row, then the queries of
\* check_budget_alert (budget, spent amount, existing alert), then the commit
\* of the alert row.  A request in flight is [pc, user_id, t, id, alert].
create_transaction_commit(uid, t) ==
    /\ uid \in CurrentUsers
    /\ transactions' = Append(transactions, NewTransaction(uid, t))
    /\ IF t.transaction_type = "expense"
       THEN /\ regs' = Append(regs, [pc |-> "check_budget", user_id |-> uid, t |-> t,
                                     id |-> Len(transactions) + 1, alert |-> << >>])
            /\ UNCHANGED resp
       ELSE /\ resp' = Ok("create_transaction", uid, t, [id |-> Len(transactions) + 1])
            /\ UNCHANGED regs
    /\ exchange_rates' = CacheAfter(t.currency)[1]
    /\ last_update' = CacheAfter(t.currency)[2]
    /\ UNCHANGED << users, categories, budgets, alerts, now, tzOffset, ml >>

\* the queries of check_budget_alert of the request in flight i
create_transaction_check(i) ==
    /\ i \in 1..Len(regs)
    /\ regs[i].pc = "check_budget"
    /\ \E chk \in { check_budget_alert(transactions, budgets, regs[i].user_id,
                                        regs[i].t.category_id) } :
          IF chk.outcome = "alert"
          THEN /\ regs' = [regs EXCEPT ![i].pc = "insert_alert",
                                       ![i].alert = chk.alert]
               /\ UNCHANGED resp
          ELSE /\ regs' = RemoveAt(regs, i)
               /\ resp' = IF chk.outcome = "raise"
                          THEN Err("create_transaction", regs[i].user_id, regs[i].t,
                                   500, "Internal Server Error")
                          ELSE Ok("create_transaction", regs[i].user_id, regs[i].t,
                                  [id |-> regs[i].id])
    /\ UNCHANGED << db, now, tzOffset, ml, exchange_rates, last_update >>

\* self.db.add(alert); self.db.commit() of the request in flight i
create_transaction_alert(i) ==
    /\ i \in 1..Len(regs)
    /\ regs[i].pc = "insert_alert"
    /\ alerts' = Append(alerts, [regs[i].alert EXCEPT !.id = Len(alerts) + 1,
                                                      !.created_at = now - tzOffset])
    /\ resp' = Ok("create_transaction", regs[i].user_id, regs[i].t, [id |-> regs[i].id])
    /\ regs' = RemoveAt(regs, i)
    /\ UNCHANGED << users, categories, transactions, budgets, now, tzOffset, ml,
                    exchange_rates, last_update >>

\* db.query(Transaction).filter(user_id == uid).offset(skip).limit(limit).all()
TransactionsOf(uid, skip, limit) ==
    OffsetLimit(Filter(transactions, LAMBDA t : t.user_id = uid), skip, limit)

\* get_transactions without the filter on Transaction.user_id
get_transactions_unfiltered(uid, skip, limit) ==
    /\ uid \in CurrentUsers
    /\ resp' = Ok("get_transactions", uid, [skip |-> skip, limit |-> limit],
                  OffsetLimit(transactions, skip, limit))
    /\ UNCHANGED << db, now, tzOffset, ml, exchange_rates, last_update, regs >>

\* GET /transactions/?skip=&limit=
get_transactions(uid, skip, limit) ==
    /\ uid \in CurrentUsers
    /\ resp' = Ok("get_transactions", uid, [skip |-> skip, limit |-> limit],
                  TransactionsOf(uid, skip, limit))
    /\ UNCHANGED << db, now, tzOffset, ml, exchange_rates, last_update, regs >>


UnknownTransaction == << "unknown", "transaction" >>

\* an amount check that lets every SMS through
AmountMissing_never(parsed) == FALSE

\* not parsed['amount']: None or 0.0
AmountMissing(parsed) == parsed.amount <= 0

\* parse_sms_transactions whose fallback takes the first category named
\* "Others", whoever owns it
parse_sms_transactions_any_others(uid, sms, category_name) ==
    /\ uid \in CurrentUsers
    /\ \E parsed \in {parse_sms(sms)} :
       LET description == IF parsed.merchant # << >> THEN parsed.merchant
                          ELSE UnknownTransaction
       IN
       IF AmountMissing(parsed)
       THEN /\ resp' = Err("parse_sms_transactions", uid, sms, 400,
                           "Could not extract transaction amount from SMS")
            /\ UNCHANGED << categories, transactions, alerts, exchange_rates,
                            last_update >>
       ELSE
       /\ category_name \in PredictOutcomes(description)
       /\ LET byName == First(categories, LAMBDA c : c.name = category_name
                                                      /\ c.user_id = uid)
              others == First(categories, LAMBDA c : c.name = "Others")
              cats == IF byName = 0 /\ others = 0
                      THEN Append(categories,
                                  [id |-> Len(categories) + 1, name |-> "Others",
                                   user_id |-> uid, is_default |-> TRUE])
                      ELSE categories
              category == IF byName # 0 THEN categories[byName]
                          ELSE IF others # 0 THEN categories[others]
                          ELSE cats[Len(cats)]
              transaction ==
                  [id |-> Len(transactions) + 1,
                   user_id |-> uid,
                   amount |-> parsed.amount,
                   currency |-> parsed.currency,
                   amount_inr |-> convert_to_inr(parsed.amount, parsed.currency),
                   exchange_rate |-> RateToInr(parsed.currency),
                   description |-> description,
                   category_id |-> category.id,
                   transaction_date |-> IF parsed.date # -1
                                        THEN parsed.date * TicksPerDay ELSE now,
                   transaction_type |-> IF parsed.type = "debit" THEN "expense"
                                        ELSE "income",
                   source |-> "bank_sms",
                   raw_text |-> sms]
          IN  /\ categories' = cats
              /\ transactions' = Append(transactions, transaction)
              /\ \E chk \in { IF transaction.transaction_type = "expense"
                              THEN check_budget_alert(transactions', budgets, uid,
                                                      category.id)
                              ELSE [outcome |-> "none"] } :
                    /\ alerts' = IF chk.outcome = "alert"
                                 THEN Append(alerts, chk.alert) ELSE alerts
                    \* except Exception: the committed rows stay, the answer is 500
                    /\ resp' = IF chk.outcome = "raise"
                               THEN Err("parse_sms_transactions", uid, sms, 500,
                                        "Internal error")
                               ELSE Ok("parse_sms_transactions", uid, sms,
                                       [transaction_id |-> transaction.id,
                                        category |-> category_name,
                                        budget_alert |-> IF chk.outcome = "alert"
                                                         THEN chk.alert.title
                                                         ELSE << >>])
              /\ exchange_rates' = CacheAfter(parsed.currency)[1]
              /\ last_update' = CacheAfter(parsed.currency)[2]
    /\ UNCHANGED << users, budgets, now, tzOffset, ml, regs >>

\* POST /transactions/parse-sms by user uid; category_name is the classifier's
\* answer for the description
parse_sms_transactions(uid, sms, category_name) ==
    /\ uid \in CurrentUsers
    /\ \E parsed \in {parse_sms(sms)} :
       LET description == IF parsed.merchant # << >> THEN parsed.merchant
                          ELSE UnknownTransaction
       IN
       IF AmountMissing(parsed)
       THEN /\ resp' = Err("parse_sms_transactions", uid, sms, 400,
                           "Could not extract transaction amount from SMS")
            /\ UNCHANGED << categories, transactions, alerts, exchange_rates,
                            last_update >>
       ELSE
       /\ category_name \in PredictOutcomes(description)
       /\ LET byName == First(categories, LAMBDA c : c.name = category_name
                                                      /\ c.user_id = uid)
              others == First(categories, LAMBDA c : c.name = "Others"
                                                      /\ c.user_id = uid)
              cats == IF byName = 0 /\ others = 0
                      THEN Append(categories,
                                  [id |-> Len(categories) + 1, name |-> "Others",
                                   user_id |-> uid, is_default |-> TRUE])
                      ELSE categories
              category == IF byName # 0 THEN categories[byName]
                          ELSE IF others # 0 THEN categories[others]
                          ELSE cats[Len(cats)]
              transaction ==
                  [id |-> Len(transactions) + 1,
                   user_id |-> uid,
                   amount |-> parsed.amount,
                   currency |-> parsed.currency,
                   amount_inr |-> convert_to_inr(parsed.amount, parsed.currency),
                   exchange_rate |-> RateToInr(parsed.currency),
                   description |-> description,
                   category_id |-> category.id,
                   transaction_date |-> IF parsed.date # -1
                                        THEN parsed.date * TicksPerDay ELSE now,
                   transaction_type |-> IF parsed.type = "debit" THEN "expense"
                                        ELSE "income",
                   source |-> "bank_sms",
                   raw_text |-> sms]
          IN  /\ categories' = cats
              /\ transactions' = Append(transactions, transaction)
              /\ \E chk \in { IF transaction.transaction_type = "expense"
                              THEN check_budget_alert(transactions', budgets, uid,
                                                      category.id)
                              ELSE [outcome |-> "none"] } :
                    /\ alerts' = IF chk.outcome = "alert"
                                 THEN Append(alerts, chk.alert) ELSE alerts
                    \* except Exception: the committed rows stay, the answer is 500
                    /\ resp' = IF chk.outcome = "raise"
                               THEN Err("parse_sms_transactions", uid, sms, 500,
                                        "Internal error")
                               ELSE Ok("parse_sms_transactions", uid, sms,
                                       [transaction_id |-> transaction.id,
                                        category |-> category_name,
                                        budget_alert |-> IF chk.outcome = "alert"
                                                         THEN chk.alert.title
                                                         ELSE << >>])
              /\ exchange_rates' = CacheAfter(parsed.currency)[1]
              /\ last_update' = CacheAfter(parsed.currency)[2]
    /\ UNCHANGED << users, budgets, now, tzOffset, ml, regs >>

\* db.query(Category).filter(user_id == uid).all()
CategoriesOf(uid) == Filter(categories, LAMBDA c : c.user_id = uid)

\* GET /categories/
get_categories(uid) ==
    /\ uid \in CurrentUsers
    /\ resp' = Ok("get_categories", uid, << >>, CategoriesOf(uid))
    /\ UNCHANGED << db, now, tzOffset, ml, exchange_rates, last_update, regs >>

\* POST /categories/
create_category(uid, name) ==
    /\ uid \in CurrentUsers
    /\ categories' = Append(categories,
                            [id |-> Len(categories) + 1, name |-> name,
                             user_id |-> uid, is_default |-> FALSE])
    /\ resp' = Ok("create_category", uid, name, [id |-> Len(categories) + 1])
    /\ UNCHANGED << users, transactions, budgets, alerts, now, tzOffset, ml,
                    exchange_rates, last_update, regs >>

\* create_budget without the lookup of an existing active budget
create_budget_always_insert(uid, b) ==
    /\ uid \in CurrentUsers
    /\ budgets' = Append(budgets,
                         [id |-> Len(budgets) + 1,
                          user_id |-> uid,
                          category_id |-> b.category_id,
                          amount |-> b.amount,
                          period |-> b.period,
                          alert_threshold |-> b.alert_threshold,
                          is_active |-> TRUE])
    /\ resp' = Ok("create_budget", uid, b, [id |-> Len(budgets) + 1])
    /\ UNCHANGED << users, categories, transactions, alerts, now, tzOffset, ml,
                    exchange_rates, last_update, regs >>

\* POST /budgets/ by user uid with body b
create_budget(uid, b) ==
    /\ uid \in CurrentUsers
    /\ LET existing == ActiveBudget(budgets, uid, b.category_id) IN
       IF existing # 0
       THEN /\ budgets' = [budgets EXCEPT ![existing].amount = b.amount,
                                          ![existing].period = b.period,
                                          ![existing].alert_threshold = b.alert_threshold]
            /\ resp' = Ok("create_budget", uid, b, [id |-> budgets[existing].id])
       ELSE /\ budgets' = Append(budgets,
                                 [id |-> Len(budgets) + 1,
                                  user_id |-> uid,
                                  category_id |-> b.category_id,
                                  amount |-> b.amount,
                                  period |-> b.period,
                                  alert_threshold |-> b.alert_threshold,
                                  is_active |-> TRUE])
            /\ resp' = Ok("create_budget", uid, b, [id |-> Len(budgets) + 1])
    /\ UNCHANGED << users, categories, transactions, alerts, now, tzOffset, ml,
                    exchange_rates, last_update, regs >>

\* db.query(Budget).filter(user_id == uid) [.filter(is_active == True)] .all()
BudgetsOf(uid, active_only) ==
    Filter(budgets, LAMBDA b : b.user_id = uid /\ (active_only => b.is_active))

\* GET /budgets/?active_only=
get_budgets(uid, active_only) ==
    /\ uid \in CurrentUsers
    /\ resp' = Ok("get_budgets", uid, active_only, BudgetsOf(uid, active_only))
    /\ UNCHANGED << db, now, tzOffset, ml, exchange_rates, last_update, regs >>

\* the statuses get_budgets_status collects for user uid
BudgetStatuses(uid) ==
    LET mine == Filter([i \in 1..Len(budgets) |-> i],
                       LAMBDA i : budgets[i].user_id = uid /\ budgets[i].is_active)
    IN  [k \in 1..Len(mine) |-> get_budget_status(mine[k])]

\* GET /budgets/status
get_budgets_status(uid) ==
    /\ uid \in CurrentUsers
    /\ resp' = IF \E i \in 1..Len(budgets) :
                     /\ budgets[i].user_id = uid /\ budgets[i].is_active
                     /\ CategoryOf(budgets[i].category_id) = 0
               THEN Err("get_budgets_status", uid, << >>, 500, "Internal Server Error")
               ELSE Ok("get_budgets_status", uid, << >>, BudgetStatuses(uid))
    /\ UNCHANGED << db, now, tzOffset, ml, exchange_rates, last_update, regs >>

AlertsLimit == 20

\* rows ordered by created_at descending (rows of equal created_at in
\* insertion order)
RECURSIVE NewestFirst(_)
NewestFirst(rows) ==
    IF rows = << >> THEN << >>
    ELSE LET i == First(rows, LAMBDA a : \A k \in 1..Len(rows) :
                                             rows[k].created_at <= a.created_at)
         IN  << rows[i] >> \o NewestFirst(RemoveAt(rows, i))

\* the alerts query without the filter on Alert.user_id
AlertsOf_unfiltered(uid, unread_only) ==
    OffsetLimit(NewestFirst(Filter(alerts, LAMBDA a : unread_only => ~a.is_read)),
                0, AlertsLimit)

\* db.query(Alert).filter(user_id == uid) [.filter(is_read == False)]
\*   .order_by(created_at.desc()).limit(20).all()
AlertsOf(uid, unread_only) ==
    OffsetLimit(NewestFirst(Filter(alerts,
                    LAMBDA a : a.user_id = uid /\ (unread_only => ~a.is_read))),
                0, AlertsLimit)

\* GET /alerts/?unread_only=
get_alerts(uid, unread_only) ==
    /\ uid \in CurrentUsers
    /\ resp' = Ok("get_alerts", uid, unread_only, AlertsOf(uid, unread_only))
    /\ UNCHANGED << db, now, tzOffset, ml, exchange_rates, last_update, regs >>

\* mark_alert_read without the filter on Alert.user_id
mark_alert_read_any_owner(uid, alert_id) ==
    /\ uid \in CurrentUsers
    /\ LET ai == First(alerts, LAMBDA a : a.id = alert_id) IN
       IF ai # 0
       THEN /\ alerts' = [alerts EXCEPT ![ai].is_read = TRUE]
            /\ resp' = Ok("mark_alert_read", uid, alert_id, "Alert marked as read")
       ELSE /\ resp' = Err("mark_alert_read", uid, alert_id, 404, "Alert not found")
            /\ UNCHANGED alerts
    /\ UNCHANGED << users, categories, transactions, budgets, now, tzOffset, ml,
                    exchange_rates, last_update, regs >>

\* PUT /alerts/{alert_id}/read
mark_alert_read(uid, alert_id) ==
    /\ uid \in CurrentUsers
    /\ LET ai == First(alerts, LAMBDA a : a.id = alert_id /\ a.user_id = uid) IN
       IF ai # 0
       THEN /\ alerts' = [alerts EXCEPT ![ai].is_read = TRUE]
            /\ resp' = Ok("mark_alert_read", uid, alert_id, "Alert marked as read")
       ELSE /\ resp' = Err("mark_alert_read", uid, alert_id, 404, "Alert not found")
            /\ UNCHANGED alerts
    /\ UNCHANGED << users, categories, transactions, budgets, now, tzOffset, ml,
                    exchange_rates, last_update, regs >>

\* GET /currency/rates?base_currency=
get_exchange_rates_route(uid, base_currency) ==
    /\ uid \in CurrentUsers
    /\ \E r \in { get_exchange_rates(exchange_rates, last_update, base_currency) } :
          /\ exchange_rates' = r[1]
          /\ last_update' = r[2]
          /\ resp' = Ok("get_exchange_rates", uid, base_currency,
                        [base_currency |-> base_currency, stored |-> r[3],
                         last_updated |-> now])
    /\ UNCHANGED << db, now, tzOffset, ml, regs >>

\* the row upload_pdf_statement builds for a row of the parsed statement:
\* row.debit / row.credit are 0 when the column is missing or the cell is
\* empty, row.date is -1 when the row has no date.  currency and
\* exchange_rate take the column defaults, amount_inr stays NULL (-1) and
\* category_id is None (0) when the user has no category of the predicted name
PdfTransaction(uid, id, row, category_name) ==
    LET category == First(categories, LAMBDA c : c.name = category_name
                                                    /\ c.user_id = uid)
        abs == IF row.amount < 0 THEN 0 - row.amount ELSE row.amount
    IN  [id |-> id,
         user_id |-> uid,
         amount |-> IF row.debit # 0 THEN row.debit
                    ELSE IF row.credit # 0 THEN row.credit ELSE abs,
         currency |-> "INR",
         amount_inr |-> -1,
         exchange_rate |-> [num |-> 1, den |-> 1],
         description |-> row.description,
         category_id |-> IF category # 0 THEN categories[category].id ELSE 0,
         transaction_date |-> IF row.date # -1 THEN row.date ELSE now,
         transaction_type |-> IF row.debit # 0 THEN "expense"
                              ELSE IF row.credit # 0 THEN "income"
                              ELSE IF row.amount > 0 THEN "expense" ELSE "income",
         source |-> "pdf",
         raw_text |-> << row >>]

\* POST /transactions/upload-pdf by user uid: rows is the table
\* pdf_parser.parse_statement extracts from the file, names the classifier's
\* answers for the descriptions of the rows
upload_pdf_statement(uid, rows, names) ==
    /\ uid \in CurrentUsers
    /\ Len(names) = Len(rows)
    /\ \A i \in 1..Len(rows) : names[i] \in PredictOutcomes(rows[i].description)
    /\ transactions' = transactions \o
           [i \in 1..Len(rows) |->
              PdfTransaction(uid, Len(transactions) + i, rows[i], names[i])]
    /\ resp' = Ok("upload_pdf_statement", uid, rows, [count |-> Len(rows)])
    /\ UNCHANGED << users, categories, budgets, alerts, now, tzOffset, ml,
                    exchange_rates, last_update, regs >>

\* the row import_csv builds for a row of the CSV file: row.type is the text
\* of the 'type' column ('expense' when the file has none), row.date is -1
\* when the date is not of the form %Y-%m-%d
CsvTransaction(uid, id, row, category_name) ==
    LET category == First(categories, LAMBDA c : c.name = category_name
                                                    /\ c.user_id = uid)
    IN  [id |-> id,
         user_id |-> uid,
         amount |-> IF row.amount < 0 THEN 0 - row.amount ELSE row.amount,
         currency |-> "INR",
         amount_inr |-> -1,
         exchange_rate |-> [num |-> 1, den |-> 1],
         description |-> row.description,
         category_id |-> IF category # 0 THEN categories[category].id ELSE 0,
         transaction_date |-> IF row.date # -1 THEN row.date ELSE now,
         transaction_type |->
             IF \E i \in 1..Len(row.description) :
                    row.description[i] \in {"credit", "deposit"}
             THEN "income" ELSE row.type,
         source |-> "csv",
         raw_text |-> << row >>]

\* import_csv as if every row were committed as soon as it is added: the
\* rows before the first row whose amount is not a number stay
import_csv_row_commits(uid, rows, names) ==
    /\ uid \in CurrentUsers
    /\ Len(names) = Len(rows)
    /\ \A i \in 1..Len(rows) : names[i] \in PredictOutcomes(rows[i].description)
    /\ LET good == { n \in 0..Len(rows) : \A i \in 1..n : rows[i].numeric }
           n == CHOOSE k \in good : \A l \in good : l <= k
       IN  /\ transactions' = transactions \o
                  [i \in 1..n |->
                     CsvTransaction(uid, Len(transactions) + i, rows[i], names[i])]
           /\ resp' = IF n < Len(rows)
                      THEN Err("import_csv", uid, rows, 500, "Internal Server Error")
                      ELSE Ok("import_csv", uid, rows, [count |-> Len(rows)])
    /\ UNCHANGED << users, categories, budgets, alerts, now, tzOffset, ml,
                    exchange_rates, last_update, regs >>

\* POST /import/csv by user uid with the rows of the file.  row.numeric tells
\* whether float() accepts the amount cell: when it raises on some row the
\* request ends before db.commit() and get_db closes the session, which
\* discards the rows added so far
import_csv(uid, rows, names) ==
    /\ uid \in CurrentUsers
    /\ Len(names) = Len(rows)
    /\ \A i \in 1..Len(rows) : names[i] \in PredictOutcomes(rows[i].description)
    /\ IF \E i \in 1..Len(rows) : ~rows[i].numeric
       THEN /\ resp' = Err("import_csv", uid, rows, 500, "Internal Server Error")
            /\ UNCHANGED transactions
       ELSE /\ transactions' = transactions \o
                   [i \in 1..Len(rows) |->
                      CsvTransaction(uid, Len(transactions) + i, rows[i], names[i])]
            /\ resp' = Ok("import_csv", uid, rows, [count |-> Len(rows)])
    /\ UNCHANGED << users, categories, budgets, alerts, now, tzOffset, ml,
                    exchange_rates, last_update, regs >>

\* POST /budget/set by user uid (form fields category_id, amount): the
\* handler verifies the category and answers; it writes nothing
set_budget(uid, category_id, amount) ==
    /\ uid \in CurrentUsers
    /\ LET req == [category_id |-> category_id, amount |-> amount]
           category == First(categories, LAMBDA c : c.id = category_id
                                                       /\ c.user_id = uid)
       IN  resp' = IF category = 0
                   THEN Err("set_budget", uid, req, 404, "Category not found")
                   ELSE Ok("set_budget", uid, req,
                           [category |-> categories[category].name,
                            budget_amount |-> amount])
    /\ UNCHANGED << db, now, tzOffset, ml, exchange_rates, last_update, regs >>

(***************************************************************************)
(* natural_language_query: queries are sequences of characters             *)
(***************************************************************************)
\* "How much did I spend this month?"
QuerySpendMonth ==
    <<"H","o","w"," ","m","u","c","h"," ","d","i","d"," ","I"," ","s","p","e",
      "n","d"," ","t","h","i","s"," ","m","o","n","t","h","?">>

\* "How much did I earn this month?"
QueryEarnMonth ==
    <<"H","o","w"," ","m","u","c","h"," ","d","i","d"," ","I"," ","e","a","r",
      "n"," ","t","h","i","s"," ","m","o","n","t","h","?">>

\* "What's my income vs expenses?"
QueryIncomeVsExpenses ==
    <<"W","h","a","t","'","s"," ","m","y"," ","i","n","c","o","m","e"," ","v",
      "s"," ","e","x","p","e","n","s","e","s","?">>

\* "What percentage of income am I spending?"
QueryPercentage ==
    <<"W","h","a","t"," ","p","e","r","c","e","n","t","a","g","e"," ","o","f",
      " ","i","n","c","o","m","e"," ","a","m"," ","I"," ","s","p","e","n","d",
      "i","n","g","?">>

\* "Am I saving money?"
QuerySaving ==
    <<"A","m"," ","I"," ","s","a","v","i","n","g"," ","m","o","n","e","y","?">>

\* "What's my net balance?"
QueryNetBalance ==
    <<"W","h","a","t","'","s"," ","m","y"," ","n","e","t"," ","b","a","l","a",
      "n","c","e","?">>

\* "What's my top spending category?"
QueryTopCategory ==
    <<"W","h","a","t","'","s"," ","m","y"," ","t","o","p"," ","s","p","e","n",
      "d","i","n","g"," ","c","a","t","e","g","o","r","y","?">>

\* "How much did I spend on food?"
QuerySpendFood ==
    <<"H","o","w"," ","m","u","c","h"," ","d","i","d"," ","I"," ","s","p","e",
      "n","d"," ","o","n"," ","f","o","o","d","?">>

\* "How much have I spent this month?"
QuerySpentMonth ==
    <<"H","o","w"," ","m","u","c","h"," ","h","a","v","e"," ","I"," ","s","p",
      "e","n","t"," ","t","h","i","s"," ","m","o","n","t","h","?">>

\* "Hello"
QueryHello ==
    <<"H","e","l","l","o">>

\* the characters of the keywords the handler looks for
Keyword(str) ==
    CASE str = "percentage" -> <<"p","e","r","c","e","n","t","a","g","e">>
      [] str = "percent" -> <<"p","e","r","c","e","n","t">>
      [] str = "%" -> <<"%">>
      [] str = "income" -> <<"i","n","c","o","m","e">>
      [] str = "expense" -> <<"e","x","p","e","n","s","e">>
      [] str = "vs" -> <<"v","s">>
      [] str = "versus" -> <<"v","e","r","s","u","s">>
      [] str = "spent" -> <<"s","p","e","n","t">>
      [] str = "month" -> <<"m","o","n","t","h">>
      [] str = "total" -> <<"t","o","t","a","l">>
      [] str = "earn" -> <<"e","a","r","n">>
      [] str = "how much" -> <<"h","o","w"," ","m","u","c","h">>
      [] str = "save" -> <<"s","a","v","e">>
      [] str = "saving" -> <<"s","a","v","i","n","g">>
      [] str = "category" -> <<"c","a","t","e","g","o","r","y">>
      [] str = "most" -> <<"m","o","s","t">>
      [] str = "balance" -> <<"b","a","l","a","n","c","e">>
      [] str = "left" -> <<"l","e","f","t">>
      [] str = "remaining" -> <<"r","e","m","a","i","n","i","n","g">>
      [] str = "food" -> <<"f","o","o","d">>
      [] str = "dining" -> <<"d","i","n","i","n","g">>
      [] str = "shopping" -> <<"s","h","o","p","p","i","n","g">>
      [] str = "entertainment" -> <<"e","n","t","e","r","t","a","i","n","m","e","n","t">>
      [] str = "transport" -> <<"t","r","a","n","s","p","o","r","t">>
      [] str = "bills" -> <<"b","i","l","l","s">>

\* query.lower()
query_lower(query) == [i \in 1..Len(query) |-> Lower(query[i])]

\* Python's `sub in s` on strings
In(sub, s) ==
    \E i \in 0..(Len(s) - Len(sub)) : SubSeq(s, i + 1, i + Len(sub)) = sub

\* category_map of the per-category branch, in the order of the dictionary
category_map ==
    << [key |-> "food", value |-> "Food & Dining"],
       [key |-> "dining", value |-> "Food & Dining"],
       [key |-> "shopping", value |-> "Shopping"],
       [key |-> "entertainment", value |-> "Entertainment"],
       [key |-> "transport", value |-> "Transportation"],
       [key |-> "bills", value |-> "Bills & Utilities"] >>

\* the branch of the if/elif chain of natural_language_query a query takes
QueryBranch(query) ==
    LET q == query_lower(query)
        Has(str) == In(Keyword(str), q)
    IN  IF Has("percentage") \/ Has("percent") \/ Has("%") THEN "percentage"
        ELSE IF (Has("income") /\ Has("expense")) \/ Has("vs") \/ Has("versus")
             THEN "comparison"
        ELSE IF Has("spent") /\ (Has("month") \/ Has("total")) THEN "spending"
        ELSE IF Has("earn") \/ (Has("income") /\ Has("how much")) THEN "income"
        ELSE IF Has("save") \/ Has("saving") THEN "savings"
        ELSE IF Has("category") \/ Has("most") THEN "top_category"
        ELSE IF Has("balance") \/ Has("left") \/ Has("remaining") THEN "balance"
        ELSE IF \E k \in 1..Len(category_map) : Has(category_map[k].key)
             THEN "category"
        ELSE "help"

\* the user's transactions of a type dated from the first of the current month
MonthRows(uid, type) ==
    LET start_date == (now \div TicksPerMonth) * TicksPerMonth
    IN  Filter(transactions, LAMBDA t : /\ t.user_id = uid
                                         /\ t.transaction_type = type
                                         /\ t.transaction_date >= start_date)

\* the month's expenses of user uid joined with the category named name
CategoryRows(uid, name) ==
    Filter(MonthRows(uid, "expense"),
           LAMBDA t : \E i \in 1..Len(categories) :
                         categories[i].id = t.category_id /\ categories[i].name = name)

\* the names get_spending_by_category groups the month's expenses by
SpendingNames(uid) ==
    { categories[i].name : i \in { j \in 1..Len(categories) :
                                      CategoryRows(uid, categories[j].name) # << >> } }

\* POST /query by user uid: the answer is its branch (kind) and its data; of
\* several categories with the highest spending any one may be named
natural_language_query(uid, query) ==
    /\ uid \in CurrentUsers
    /\ LET income_total == SumAmount(MonthRows(uid, "income"))
           expense_total == SumAmount(MonthRows(uid, "expense"))
           branch == QueryBranch(query)
           mentioned_cat ==
               category_map[First(category_map,
                   LAMBDA e : In(Keyword(e.key), query_lower(query)))].value
           Answer(kind, data) ==
               Ok("natural_language_query", uid, query, [kind |-> kind, data |-> data])
       IN  CASE branch = "percentage" ->
                  resp' = IF income_total > 0
                          THEN Answer("percentage",
                                      [income |-> income_total,
                                       expenses |-> expense_total,
                                       spending_percentage |->
                                           (expense_total * 100) \div income_total])
                          ELSE Answer("no_income", << >>)
             [] branch = "comparison" ->
                  resp' = Answer("comparison",
                                 [income |-> income_total, expenses |-> expense_total,
                                  balance |-> income_total - expense_total])
             [] branch = "spending" ->
                  resp' = Answer("spending",
                                 [total_spending |-> expense_total,
                                  transaction_count |-> Len(MonthRows(uid, "expense"))])
             [] branch = "income" ->
                  resp' = Answer("income",
                                 [total_income |-> income_total,
                                  income_count |-> Len(MonthRows(uid, "income"))])
             [] branch = "savings" ->
                  resp' = Answer("savings",
                                 [income |-> income_total, expenses |-> expense_total,
                                  savings |-> income_total - expense_total])
             [] branch = "top_category" ->
                  IF SpendingNames(uid) = {}
                  THEN resp' = Answer("no_expenses", << >>)
                  ELSE \E top \in SpendingNames(uid) :
                          /\ \A other \in SpendingNames(uid) :
                                SumAmount(CategoryRows(uid, top)) >=
                                SumAmount(CategoryRows(uid, other))
                          /\ resp' = Answer("top_category",
                                            [category |-> top,
                                             amount |-> SumAmount(CategoryRows(uid, top))])
             [] branch = "balance" ->
                  resp' = Answer("balance",
                                 [income |-> income_total, expenses |-> expense_total,
                                  balance |-> income_total - expense_total])
             [] branch = "category" ->
                  resp' = Answer("category",
                                 [category |-> mentioned_cat,
                                  amount |-> SumAmount(CategoryRows(uid, mentioned_cat))])
             [] OTHER ->
                  resp' = Answer("help", << >>)
    /\ UNCHANGED << db, now, tzOffset, ml, exchange_rates, last_update, regs >>

\* the wall clock advances
Tick ==
    /\ now' = now + 1
    /\ UNCHANGED << db, tzOffset, ml, exchange_rates, last_update, regs, resp >>


(***************************************************************************)
(* Inputs                                                                  *)
(***************************************************************************)
W(v) == [k |-> "word", v |-> v, p |-> 0]
Sym(v) == [k |-> "sym", v |-> v, p |-> 0]
Num(v) == [k |-> "num", v |-> v, p |-> 0]
Date(p, v) == [k |-> "date", v |-> v, p |-> p]
Card(p, v) == [k |-> "card", v |-> v, p |-> p]
Stop == [k |-> "stop", v |-> ",", p |-> 0]

\* "debited by Rs.90 at SWIGGY"
SmsDebit == << W("debited"), W("by"), Sym("Rs"), Num(90), W("at"), W("swiggy") >>
\* "Rs.150 credited salary from TECH CORP"
SmsCredit == << Sym("Rs"), Num(150), W("credited"), W("salary"), W("from"),
                W("tech"), W("corp") >>
\* "Your OTP is 4321": no amount
SmsNoAmount == << W("your"), W("otp"), W("is"), W("4321") >>
\* "paid Rs.0 to NETFLIX": an amount of zero
SmsZero == << W("paid"), Sym("Rs"), Num(0), W("to"), W("netflix") >>
\* "spent USD 25 at AMAZON"
SmsUsd == << W("spent"), Sym("USD"), Num(25), W("at"), W("amazon") >>

Alice == [email |-> "alice@example.com", username |-> "alice", password |-> "pw1"]
Bob == [email |-> "bob@example.com", username |-> "bob", password |-> "pw2"]

TxInput(amount, category_id, date, type) ==
    [amount |-> amount, currency |-> "INR", description |-> << "lunch" >>,
     category_id |-> category_id, transaction_date |-> date,
     transaction_type |-> type, source |-> "manual"]

BudgetInput(category_id, amount, period, threshold) ==
    [category_id |-> category_id, amount |-> amount, period |-> period,
     alert_threshold |-> threshold]

InitDb ==
    /\ users = << >>
    /\ categories = << >>
    /\ transactions = << >>
    /\ budgets = << >>
    /\ alerts = << >>
    /\ exchange_rates = {}
    /\ last_update = -1
    /\ regs = << >>
    /\ \E r \in {_initialize_model(NewCategorizer, NoFile)} :
          categorizer = r[1] /\ model_file = r[2]
    /\ resp = Err("none", 0, << >>, 0, "")

(***************************************************************************)
(* SpecAlert: one user spending against budgets around a month boundary,   *)
(* on hosts west of, at and east of UTC.  SpecAlertUtc: the same on a host *)
(* whose local time is UTC.                                                *)
(***************************************************************************)
TzOffsets == {-1, 0, 1}
AlertTicks == 2
AlertMaxTx == 2
AlertMaxBudgets == 2
AlertMaxCustom == 1

\* the last tick of the first month
AlertStart == TicksPerMonth - 1

InitAlert == InitDb /\ now = AlertStart /\ tzOffset \in TzOffsets

InitAlertUtc == InitDb /\ now = AlertStart /\ tzOffset = 0

\* the id of the first category created after one user's default categories
FirstCustomId == Len(categories_list) + 1

NextAlert ==
    \/ register(Alice.email, Alice.username, Alice.password)
    \/ \E name \in {"Budget"} :
          /\ Len(categories) < Len(categories_list) + AlertMaxCustom
          /\ create_category(1, name)
    \/ \E c \in {1, FirstCustomId}, period \in {"monthly", "weekly"} :
          /\ Len(budgets) < AlertMaxBudgets
          /\ create_budget(1, BudgetInput(c, 100, period, 80))
    \/ \E c \in {1, FirstCustomId} :
          /\ Len(transactions) < AlertMaxTx
          /\ create_transaction(1, TxInput(90, c, now, "expense"))
    \/ \E label \in training_labels :
          /\ Len(transactions) < AlertMaxTx
          /\ parse_sms_transactions(1, SmsDebit, label)
    \/ (now < AlertStart + AlertTicks /\ Tick)

SpecAlert == InitAlert /\ [][NextAlert]_vars

SpecAlertUtc == InitAlertUtc /\ [][NextAlert]_vars

\* the local wall-clock time at which an alert row was created
LocalCreated(a) == a.created_at + tzOffset

\* C1: a budget alert fires at most once per period: whenever a request
\* inserts a budget_exceed alert for a budgeted category of a user, no
\* budget_exceed alert of that user and category has already been created
\* within the budget's current period (month, week or year by budget.period).
C1_AtMostOncePerPeriod ==
    [][ \A i \in (Len(alerts) + 1)..Len(alerts') :
          LET a == alerts'[i]
              bi == ActiveBudget(budgets, a.user_id, a.for_category)
          IN  (a.alert_type = "budget_exceed" /\ bi # 0) =>
              ~ \E j \in 1..Len(alerts) :
                    /\ alerts[j].user_id = a.user_id
                    /\ alerts[j].alert_type = "budget_exceed"
                    /\ alerts[j].for_category = a.for_category
                    /\ LocalCreated(alerts[j]) >=
                         get_budget_period_dates(budgets[bi].period, now).start_date
      ]_vars

\* C2: a budget alert fires once the threshold is crossed: when
\* create_transaction or parse_sms_transactions has recorded an expense of user
\* U in category C and answers 200, U has an active budget on C with amount > 0,
\* the period's accumulated expense is at least alert_threshold * amount and
\* no alert for C had been created in this period, then a budget_exceed alert
\* of U for C created in this period exists.
C2_AlertFiresOnceCrossed ==
    [][ ( /\ resp'.op \in {"create_transaction", "parse_sms_transactions"}
          /\ resp'.status = 200
          /\ Len(transactions') = Len(transactions) + 1 ) =>
        LET t == transactions'[Len(transactions')]
            bi == ActiveBudget(budgets, t.user_id, t.category_id)
            period == get_budget_period_dates(budgets[bi].period, now)
            spent == get_spent_amount(transactions', t.user_id, t.category_id,
                                      period.start_date, period.end_date)
            Alerted(table) ==
                \E j \in 1..Len(table) :
                    /\ table[j].user_id = t.user_id
                    /\ table[j].alert_type = "budget_exceed"
                    /\ table[j].for_category = t.category_id
                    /\ LocalCreated(table[j]) >= period.start_date
        IN  ( /\ t.transaction_type = "expense"
              /\ bi # 0
              /\ budgets[bi].amount > 0
              /\ spent * 100 >= budgets[bi].alert_threshold * budgets[bi].amount
              /\ ~Alerted(alerts) )
            => Alerted(alerts')
      ]_vars

(***************************************************************************)
(* SpecList: two users record transactions and page through their lists    *)
(* with the default skip and limit.                                        *)
(***************************************************************************)
\* limit: int = 100
DefaultLimit == 100
ListMaxTx == 102
ListMaxOther == 2

InitList == InitDb /\ now = 0 /\ tzOffset = 0

\* the number of transaction rows of user uid
CountOf(uid) == Len(Filter(transactions, LAMBDA t : t.user_id = uid))

NextList ==
    \/ register(Alice.email, Alice.username, Alice.password)
    \/ register(Bob.email, Bob.username, Bob.password)
    \/ /\ CountOf(1) < ListMaxTx
       /\ create_transaction(1, TxInput(10, 1, now, "expense"))
    \* the other user's rows are among the first ListMaxOther rows of the table
    \/ /\ Len(transactions) < ListMaxOther
       /\ create_transaction(2, TxInput(10, 1, now, "income"))
    \/ \E uid \in {1, 2} : get_transactions(uid, 0, DefaultLimit)

SpecList == InitList /\ [][NextList]_vars

\* the listing in resp names the transaction with this id
Listed(id) == \E k \in 1..Len(resp.body) : resp.body[k].id = id

\* the transactions of the caller inserted before the row with this id
Before(id) ==
    { j \in 1..Len(transactions) :
        transactions[j].user_id = resp.caller /\ transactions[j].id < id }

Emails == {Alice.email, Bob.email}
Usernames == {Alice.username, Bob.username}
Passwords == {Alice.password, Bob.password}
AuthMaxRegs == 2

InitAuth == InitDb /\ now = 0 /\ tzOffset = 0

NextAuth ==
    \/ \E e \in Emails, u \in Usernames, p \in Passwords :
          /\ Len(regs) < AuthMaxRegs
          /\ register_query(e, u, p)
    \/ \E i \in 1..Len(regs) : register_commit_user(i)
    \/ \E i \in 1..Len(regs) : register_commit_categories(i)
    \/ \E u \in Usernames \cup {"carol"}, p \in Passwords : login(u, p)

SpecAuth == InitAuth /\ [][NextAuth]_vars

\* C6: user identity is unique: no two user rows share an email or a
\* username, however register requests interleave; a register request whose
\* email or username is taken when it looks the user up goes no further (no
\* user row and no category row ever comes from it), and an answer 400 is
\* 'Email or username already registered' and comes with no change of a row.
C6_UniqueIdentity ==
    /\ [](\A i, j \in 1..Len(users) :
             i # j => /\ users[i].email # users[j].email
                      /\ users[i].username # users[j].username)
    /\ [][ /\ \A k \in 1..Len(regs') :
                 (k > Len(regs) /\ Len(regs') > Len(regs)) =>
                 ~ \E i \in 1..Len(users) :
                      \/ users[i].email = regs'[k].email
                      \/ users[i].username = regs'[k].username
           /\ (resp'.op = "register" /\ resp'.status = 400 /\ resp' # resp) =>
                 /\ resp'.detail = "Email or username already registered"
                 /\ \E i \in 1..Len(users) :
                      \/ users[i].email = resp'.req.email
                      \/ users[i].username = resp'.req.username
                 /\ UNCHANGED << db, regs >>
           /\ Len(users') > Len(users) =>
                 \E k \in 1..Len(regs) :
                    /\ regs[k].pc = "commit_user"
                    /\ users' = Append(users, NewUser(regs[k].email, regs[k].username,
                                                      regs[k].password))
           /\ Len(categories') > Len(categories) =>
                 \E k \in 1..Len(regs) : regs[k].pc = "commit_categories"
         ]_vars

\* a register request was answered 400 while two users exist
C6_Witness ==
    /\ Len(users) = 2
    /\ resp.op = "register" /\ resp.status = 400

\* a user row stores these credentials
Registered(username, password) ==
    \E i \in 1..Len(users) :
        /\ users[i].username = username
        /\ verify_password(password, users[i].hashed_password)

\* C7: login succeeds exactly for registered credentials: a login with the
\* username and password of a registered user answers 200 with an access token
\* for that username and token_type "bearer"; a login with a username that was
\* never registered or with a wrong password answers 401 'Incorrect username
\* or password' without a token; no login changes stored state.
C7_LoginExactlyRegistered ==
    [][ (resp'.op = "login" /\ resp' # resp) =>
        /\ IF Registered(resp'.req.username, resp'.req.password)
           THEN /\ resp'.status = 200
                /\ resp'.body.token_type = "bearer"
                /\ resp'.body.access_token = create_access_token(resp'.req.username)
           ELSE /\ resp'.status = 401
                /\ resp'.detail = "Incorrect username or password"
                /\ resp'.body = << >>
        /\ UNCHANGED << db, regs, exchange_rates, last_update >>
      ]_vars

\* a login with a registered username and another user's password was refused
\* while both users can log in
C7_Witness ==
    /\ Len(users) = 2
    /\ resp.op = "login" /\ resp.status = 401
    /\ \E i, j \in 1..Len(users) :
          /\ i # j
          /\ users[i].username = resp.req.username
          /\ verify_password(resp.req.password, users[j].hashed_password)
          /\ ~verify_password(resp.req.password, users[i].hashed_password)

(***************************************************************************)
(* SpecStatus: one user, one budgeted category with budgets of a negative, *)
(* a zero and a positive amount and thresholds below, at and above the     *)
(* reachable percentages, expenses and incomes, and status reads.          *)
(***************************************************************************)
StatusTicks == 1
StatusMaxTx == 3
StatusAmounts == {-100, 0, 100}
StatusThresholds == {0, 80, 120}
StatusSpendings == {40, 60}

InitStatus == InitDb /\ now = 0 /\ tzOffset = 0

NextStatus ==
    \/ register(Alice.email, Alice.username, Alice.password)
    \/ \E amount \in StatusAmounts, thr \in StatusThresholds :
          create_budget(1, BudgetInput(1, amount, "monthly", thr))
    \/ \E amount \in StatusSpendings, type \in {"expense", "income"} :
          /\ Len(transactions) < StatusMaxTx
          /\ create_transaction(1, TxInput(amount, 1, now, type))
    \/ get_budgets_status(1)
    \/ (now < StatusTicks /\ Tick)

SpecStatus == InitStatus /\ [][NextStatus]_vars

\* C4: budget status is a read-time function of the budget amount and the
\* period's accumulated expense: get_budgets_status reports each active budget
\* of the caller once, with the period's expense as spent_amount,
\* remaining_amount = amount - spent, status 'exceeded' iff spent / amount * 100
\* >= 100, 'warning' iff alert_threshold * 100 <= spent / amount * 100 < 100
\* (the percentage being 0 when amount <= 0) and 'safe' otherwise; the call
\* changes no row.
C4_StatusIsReadTimeFunction ==
    [][ (resp'.op = "get_budgets_status" /\ resp'.status = 200 /\ resp' # resp) =>
        /\ UNCHANGED db
        /\ Len(resp'.body) =
              Cardinality({ i \in 1..Len(budgets) :
                              budgets[i].user_id = resp'.caller /\ budgets[i].is_active })
        /\ \A k, l \in 1..Len(resp'.body) :
              k # l => resp'.body[k].budget_id # resp'.body[l].budget_id
        /\ \A k \in 1..Len(resp'.body) :
              LET s == resp'.body[k]
                  b == budgets[s.budget_id]
                  period == get_budget_period_dates(b.period, now)
                  spent == s.spent_amount
                  Exceeded == b.amount > 0 /\ spent * 100 >= 100 * b.amount
                  Warning == IF b.amount > 0
                             THEN /\ b.alert_threshold * b.amount <= spent * 100
                                  /\ spent * 100 < 100 * b.amount
                             ELSE b.alert_threshold <= 0
              IN  /\ b.user_id = resp'.caller /\ b.is_active
                  /\ s.budget_amount = b.amount
                  /\ spent = get_spent_amount(transactions, b.user_id, b.category_id,
                                              period.start_date, period.end_date)
                  /\ s.remaining_amount = b.amount - spent
                  /\ s.status = IF Exceeded THEN "exceeded"
                                ELSE IF Warning THEN "warning" ELSE "safe"
      ]_vars

\* a read reported a budget exactly at its threshold as 'warning'
C4_Witness ==
    /\ resp.op = "get_budgets_status" /\ resp.status = 200
    /\ \E k \in 1..Len(resp.body) :
          /\ resp.body[k].status = "warning"
          /\ resp.body[k].budget_amount = 100
          /\ resp.body[k].spent_amount = 80
          /\ budgets[resp.body[k].budget_id].alert_threshold = 80

(***************************************************************************)
(* SpecBudget: two users set budgets on two categories, again and again    *)
(* with other amounts and periods, and list their budgets.                 *)
(***************************************************************************)
BudgetMaxRows == 5
BudgetAmounts == {100, 200}
BudgetPeriods == {"monthly", "weekly"}

InitBudget == InitDb /\ now = 0 /\ tzOffset = 0

NextBudget ==
    \/ register(Alice.email, Alice.username, Alice.password)
    \/ register(Bob.email, Bob.username, Bob.password)
    \/ \E uid \in {1, 2}, c \in {1, FirstCustomId},
          amount \in BudgetAmounts, period \in BudgetPeriods :
          /\ Len(budgets) < BudgetMaxRows
          /\ create_budget(uid, BudgetInput(c, amount, period, 80))
    \/ \E uid \in {1, 2}, active_only \in BOOLEAN : get_budgets(uid, active_only)

SpecBudget == InitBudget /\ [][NextBudget]_vars

\* the active budget rows of a (user, category) pair
ActiveRows(table, uid, c) ==
    { i \in 1..Len(table) :
        table[i].user_id = uid /\ table[i].category_id = c /\ table[i].is_active }

\* C5: create_budget creates or updates: each (user, category) pair has at
\* most one active budget row; a call for a pair that has an active budget
\* sets that row's amount, period and alert_threshold in place (same id, no
\* row added, removed or deactivated, no other row touched), and a call for a
\* pair without one adds exactly one row, active, with the values of the call.
C5_CreateOrUpdate ==
    /\ [](\A i, j \in 1..Len(budgets) :
             (i # j /\ budgets[i].is_active /\ budgets[j].is_active) =>
             ~ ( /\ budgets[i].user_id = budgets[j].user_id
                 /\ budgets[i].category_id = budgets[j].category_id ))
    /\ [][ ( /\ resp'.op = "create_budget"
             /\ resp' # resp \/ budgets' # budgets ) =>
           LET uid == resp'.caller
               b == resp'.req
               had == ActiveRows(budgets, uid, b.category_id)
           IN  IF had # {}
               THEN /\ Len(budgets') = Len(budgets)
                    /\ \A i \in 1..Len(budgets) :
                          IF i \in had
                          THEN /\ budgets'[i].id = budgets[i].id
                               /\ budgets'[i].user_id = uid
                               /\ budgets'[i].category_id = b.category_id
                               /\ budgets'[i].is_active
                               /\ budgets'[i].amount = b.amount
                               /\ budgets'[i].period = b.period
                               /\ budgets'[i].alert_threshold = b.alert_threshold
                               /\ resp'.body.id = budgets[i].id
                          ELSE budgets'[i] = budgets[i]
               ELSE /\ Len(budgets') = Len(budgets) + 1
                    /\ SubSeq(budgets', 1, Len(budgets)) = budgets
                    /\ LET row == budgets'[Len(budgets')]
                       IN  /\ row.user_id = uid
                           /\ row.category_id = b.category_id
                           /\ row.is_active
                           /\ row.amount = b.amount
                           /\ row.period = b.period
                           /\ row.alert_threshold = b.alert_threshold
                           /\ row.id = resp'.body.id
                           /\ \A i \in 1..Len(budgets) : budgets[i].id # row.id
         ]_vars

\* a budget was updated in place: its row differs from the one first inserted
\* while another user holds a budget on the same category
C5_Witness ==
    /\ resp.op = "create_budget"
    /\ resp.body.id < Len(budgets)
    /\ budgets[resp.body.id].amount = 200
    /\ \E j \in 1..Len(budgets) :
          /\ budgets[j].user_id # resp.caller
          /\ budgets[j].category_id = resp.req.category_id

(***************************************************************************)
(* SpecIsolation: two users work side by side, each on categories, budgets *)
(* and expenses (also against the other user's category id), alerts fire,  *)
(* and both read their lists and mark alerts read, their own and others'.  *)
(***************************************************************************)
IsoMaxTx == 2
IsoMaxBudgets == 2
IsoMaxCustom == 1
IsoLabels == {"Food & Dining", "Shopping"}

InitIsolation == InitDb /\ now = 0 /\ tzOffset = 0

\* the Food & Dining categories of the first and of the second user
FoodIds == {1, FirstCustomId}

NextIsolation ==
    \/ register(Alice.email, Alice.username, Alice.password)
    \/ register(Bob.email, Bob.username, Bob.password)
    \/ \E uid \in {1, 2} :
          /\ Len(Filter(categories, LAMBDA c : ~c.is_default)) < IsoMaxCustom
          /\ create_category(uid, "Rent")
    \/ \E uid \in {1, 2}, c \in FoodIds :
          /\ Len(budgets) < IsoMaxBudgets
          /\ create_budget(uid, BudgetInput(c, 100, "monthly", 80))
    \/ \E uid \in {1, 2}, c \in FoodIds :
          /\ Len(transactions) < IsoMaxTx
          /\ create_transaction(uid, TxInput(90, c, now, "expense"))
    \/ \E uid \in {1, 2}, label \in IsoLabels :
          /\ Len(transactions) < IsoMaxTx
          /\ parse_sms_transactions(uid, SmsDebit, label)
    \/ \E uid \in {1, 2}, alert_id \in 1..(Len(alerts) + 1) :
          mark_alert_read(uid, alert_id)
    \/ \E uid \in {1, 2} : get_transactions(uid, 0, DefaultLimit)
    \/ \E uid \in {1, 2} : get_categories(uid)
    \/ \E uid \in {1, 2} : get_budgets(uid, TRUE)
    \/ \E uid \in {1, 2}, unread_only \in BOOLEAN : get_alerts(uid, unread_only)

SpecIsolation == InitIsolation /\ [][NextIsolation]_vars

\* what user a reads through get_transactions, get_categories, get_budgets
\* and get_alerts
ReadsOf(a) ==
    << TransactionsOf(a, 0, DefaultLimit), CategoriesOf(a), BudgetsOf(a, TRUE),
       BudgetsOf(a, FALSE), AlertsOf(a, TRUE), AlertsOf(a, FALSE) >>

WritesOfOthers ==
    {"create_transaction", "parse_sms_transactions", "create_category",
     "create_budget", "mark_alert_read"}

OwnAlerts(uid, alert_id) ==
    { i \in 1..Len(alerts) : alerts[i].id = alert_id /\ alerts[i].user_id = uid }

\* C9: mark_alert_read affects only the caller's own alert: for an id of an
\* alert of the caller it answers 200, sets that alert's is_read and changes
\* nothing else (nothing at all when the alert was read already); for an id
\* that does not exist or belongs to another user it answers 404 'Alert not
\* found' and changes nothing; no step turns is_read from TRUE to FALSE.
C9_MarkOwnAlertOnly ==
    /\ [][ ( /\ resp'.op = "mark_alert_read"
             /\ resp' # resp \/ alerts' # alerts ) =>
           LET own == OwnAlerts(resp'.caller, resp'.req)
           IN  /\ UNCHANGED << users, categories, transactions, budgets >>
               /\ IF own # {}
                  THEN /\ resp'.status = 200
                       /\ alerts' = [i \in 1..Len(alerts) |->
                                        IF i \in own
                                        THEN [alerts[i] EXCEPT !.is_read = TRUE]
                                        ELSE alerts[i]]
                       /\ (\A i \in own : alerts[i].is_read) => alerts' = alerts
                  ELSE /\ resp'.status = 404
                       /\ resp'.detail = "Alert not found"
                       /\ alerts' = alerts
         ]_vars
    /\ [][ \A i \in 1..Len(alerts) :
              alerts[i].is_read => (i <= Len(alerts') /\ alerts'[i].is_read)
         ]_vars

\* a user was refused the unread alert of the other user after marking an own
\* alert read
C9_Witness ==
    /\ resp.op = "mark_alert_read" /\ resp.status = 404
    /\ \E i \in 1..Len(alerts) :
          /\ alerts[i].id = resp.req
          /\ alerts[i].user_id # resp.caller
          /\ ~alerts[i].is_read
    /\ \E j \in 1..Len(alerts) :
          alerts[j].user_id = resp.caller /\ alerts[j].is_read

(***************************************************************************)
(* SpecSms: one user, whose registration may still be between the commit   *)
(* of the user row and the commit of the default categories, posts SMS     *)
(* texts with and without an amount; a budget makes alerts possible.       *)
(***************************************************************************)
SmsMaxTx == 2
SmsTexts == {SmsDebit, SmsCredit, SmsUsd, SmsNoAmount, SmsZero}

InitSms == InitDb /\ now = 0 /\ tzOffset = 0

NextSms ==
    \/ /\ Len(regs) = 0
       /\ register_query(Alice.email, Alice.username, Alice.password)
    \/ \E i \in 1..Len(regs) : register_commit_user(i)
    \/ \E i \in 1..Len(regs) : register_commit_categories(i)
    \/ create_budget(1, BudgetInput(1, 100, "monthly", 80))
    \/ \E sms \in SmsTexts, label \in training_labels :
          /\ Len(transactions) < SmsMaxTx
          /\ parse_sms_transactions(1, sms, label)

SpecSms == InitSms /\ [][NextSms]_vars

\* C10: parse_sms_transactions rejects an SMS without an extractable amount:
\* when parse_sms yields no amount the answer is 400 'Could not extract
\* transaction amount from SMS' and no transaction, category or alert row is
\* created; an answer 200 names the one transaction row the call added, which
\* belongs to the caller, has source 'bank_sms' and the SMS as raw_text.
C10_SmsWithoutAmountRejected ==
    [][ ( /\ resp'.op = "parse_sms_transactions"
          /\ resp' # resp \/ db' # db ) =>
        /\ parse_sms(resp'.req).amount = -1 => resp'.status = 400
        /\ resp'.status = 400 =>
              /\ resp'.detail = "Could not extract transaction amount from SMS"
              /\ UNCHANGED << transactions, categories, alerts >>
        /\ resp'.status = 200 =>
              /\ Len(transactions') = Len(transactions) + 1
              /\ SubSeq(transactions', 1, Len(transactions)) = transactions
              /\ LET row == transactions'[Len(transactions')]
                 IN  /\ row.id = resp'.body.transaction_id
                     /\ \A i \in 1..Len(transactions) : transactions[i].id # row.id
                     /\ row.user_id = resp'.caller
                     /\ row.source = "bank_sms"
                     /\ row.raw_text = resp'.req
      ]_vars

\* an SMS without an amount was refused for a user whose only category rows
\* are "Others" rows the endpoint created, after an SMS with an amount was recorded
C10_Witness ==
    /\ resp.op = "parse_sms_transactions" /\ resp.status = 400
    /\ resp.req = SmsNoAmount
    /\ \E i \in 1..Len(transactions) : transactions[i].source = "bank_sms"
    /\ \A k \in 1..Len(categories) : ~categories[k].is_default \/ categories[k].name = "Others"

(***************************************************************************)
(* SpecParse: parse_sms applied to every text of up to ParseMaxLen tokens  *)
(* over ParseTokens, and to some longer texts.                             *)
(***************************************************************************)
ParseMaxLen == 3

ParseTokens ==
    { Sym("Rs"), Sym("INR"), Sym("USD"), Num(90), Num(25), W("at"), W("on"),
      W("swiggy"), Date(1, 15), Date(1, -1), Date(2, 16), Card(1, 5678),
      Card(4, 1234), Stop }

\* "spent USD 25 at AMAZON, Avl bal Rs.90"
SmsUsdBalance ==
    << W("spent"), Sym("USD"), Num(25), W("at"), W("amazon"), Stop, W("avl"),
       W("bal"), Sym("Rs"), Num(90) >>

\* "a/c XX1234 card ending 5678 USD 90", "Rs 90 INR 25",
\* "for payment at swiggy, 15-12", "90 on 15-12-2023 at swiggy on 16 Dec 2023",
\* "withdrawn from ATM at swiggy 90, Rs 25"
ParseLonger ==
    { << Card(4, 1234), Card(1, 5678), Sym("USD"), Num(90) >>,
      << Sym("Rs"), Num(90), Sym("INR"), Num(25) >>,
      << W("for"), W("payment"), W("at"), W("swiggy"), Stop, Date(1, 15) >>,
      << Num(90), W("on"), Date(1, 15), W("at"), W("swiggy"), W("on"), Date(2, 16) >>,
      << W("withdrawn"), W("from"), W("atm"), W("at"), W("swiggy"), Num(90), Stop,
         Sym("Rs"), Num(25) >>,
      SmsDebit, SmsCredit, SmsNoAmount, SmsZero, SmsUsd, SmsUsdBalance }

ParseTexts ==
    UNION { [1..n -> ParseTokens] : n \in 0..ParseMaxLen } \cup ParseLonger

\* a text waits to be parsed
InitParse ==
    /\ users = << >> /\ categories = << >> /\ transactions = << >>
    /\ budgets = << >> /\ alerts = << >>
    /\ exchange_rates = {} /\ last_update = -1 /\ regs = << >>
    /\ \E r \in {_initialize_model(NewCategorizer, NoFile)} :
          categorizer = r[1] /\ model_file = r[2]
    /\ now = 0 /\ tzOffset = 0
    /\ \E sms \in ParseTexts : resp = Err("sms_text", 0, sms, 0, "")

\* sms_parser.parse_sms(sms_text), the result kept in resp
CallParseSms ==
    /\ resp.op = "sms_text"
    /\ resp' = Ok("parse_sms", 0, resp.req, parse_sms(resp.req))
    /\ UNCHANGED << db, now, tzOffset, ml, exchange_rates, last_update, regs >>

NextParse == CallParseSms

SpecParse == InitParse /\ [][NextParse]_vars

\* pattern i is the first of the cascade `hits` that matches
IsFirstMatch(hits, i) == hits[i] # 0 /\ \A j \in 1..(i - 1) : hits[j] = 0

NoMatch(hits) == \A i \in 1..Len(hits) : hits[i] = 0

\* the captures of the merchant patterns for the text in resp
MerchantHits == [i \in 1..Len(merchant_patterns) |->
                    IF MerchantHit(resp.req, merchant_patterns[i]) = << >> THEN 0 ELSE i]

\* the merchant and card fields are the value of the first pattern that
\* matches, and None exactly when no pattern matches
MerchantAndCardCascade ==
    LET sms == resp.req
        r == resp.body
        ch == CardPatternHits(sms)
    IN  /\ \A i \in 1..Len(merchant_patterns) :
              IsFirstMatch(MerchantHits, i) =>
              LET h == MerchantHit(sms, merchant_patterns[i])
              IN  r.merchant = WordsOf(sms, h[1], h[2])
        /\ NoMatch(MerchantHits) <=> r.merchant = << >>
        /\ \A i \in 1..Len(ch) : IsFirstMatch(ch, i) => r.card_last_digits = sms[ch[i]].v
        /\ NoMatch(ch) <=> r.card_last_digits = -1

RatesTicks == 3
RatesBases == {"INR", "USD", "EUR"}

InitRates == InitDb /\ now = 0 /\ tzOffset = 0

NextRates ==
    \/ register(Alice.email, Alice.username, Alice.password)
    \/ \E base \in RatesBases : get_exchange_rates_route(1, base)
    \/ (now < RatesTicks /\ Tick)

SpecRates == InitRates /\ [][NextRates]_vars

\* C12: the exchange-rate cache expires after one hour: whatever the sequence
\* of calls and base currencies, the table get_exchange_rates returns was
\* stored less than one hour (CacheTtl) before the call.
C12_CacheExpires ==
    [][ ( /\ resp'.op = "get_exchange_rates"
          /\ resp' # resp \/ exchange_rates' # exchange_rates ) =>
        now - resp'.body.stored < CacheTtl
      ]_vars

(***************************************************************************)
(* SpecImport: a user with a monthly budget on Food & Dining records       *)
(* transactions by hand and imports PDF statements and CSV files.  The     *)
(* registration runs in its steps, so a request can arrive between the     *)
(* commit of the user row and the commit of the default categories.        *)
(***************************************************************************)
ImportMaxTx == 3
ImportMaxRows == 2
ImportLabels == {"Food & Dining", "Shopping"}
ImportTypes == {"expense", "income", "transfer"}

\* rows of a parsed statement: a debit, a credit, a signed amount
PdfRows ==
    { [amount |-> 0, debit |-> 90, credit |-> 0, date |-> -1,
       description |-> << "swiggy" >>],
      [amount |-> 0, debit |-> 0, credit |-> 150, date |-> 0,
       description |-> << "salary" >>],
      [amount |-> -40, debit |-> 0, credit |-> 0, date |-> -1,
       description |-> << "refund" >>] }

CsvRows ==
    { [amount |-> 90, numeric |-> TRUE, description |-> << "lunch" >>, date |-> -1,
       type |-> ty] : ty \in ImportTypes }
    \cup { [amount |-> 150, numeric |-> TRUE, description |-> << "salary", "deposit" >>,
            date |-> 0, type |-> "expense"] }

\* the files of at most ImportMaxRows rows over a set of rows
Files(rowSet) == UNION { [1..n -> rowSet] : n \in 0..ImportMaxRows }

InitImport == InitDb /\ now = 0 /\ tzOffset = 0

NextImport ==
    \/ /\ Len(regs) = 0 /\ Len(users) = 0
       /\ register_query(Alice.email, Alice.username, Alice.password)
    \/ \E i \in 1..Len(regs) : register_commit_user(i)
    \/ \E i \in 1..Len(regs) : register_commit_categories(i)
    \/ create_budget(1, BudgetInput(1, 100, "monthly", 80))
    \/ \E ty \in ImportTypes :
          /\ Len(transactions) < ImportMaxTx
          /\ create_transaction(1, TxInput(50, 1, now, ty))
    \/ \E rows \in Files(PdfRows), label \in ImportLabels :
          /\ Len(transactions) + Len(rows) <= ImportMaxTx
          /\ upload_pdf_statement(1, rows, [i \in 1..Len(rows) |-> label])
    \/ \E rows \in Files(CsvRows), label \in ImportLabels :
          /\ Len(transactions) + Len(rows) <= ImportMaxTx
          /\ import_csv(1, rows, [i \in 1..Len(rows) |-> label])

SpecImport == InitImport /\ [][NextImport]_vars

\* C13: the PDF statement import runs the budget-threshold check: when
\* upload_pdf_statement has inserted an expense row of user U in category C,
\* U has an active budget on C with amount > 0, the period's accumulated
\* expense is at least alert_threshold * amount and no alert for C had been
\* created in this period, then after the import returns a budget_exceed
\* alert of U for C created in this period exists.
C13_PdfImportChecksBudget ==
    [][ ( /\ resp'.op = "upload_pdf_statement"
          /\ resp'.status = 200
          /\ Len(transactions') > Len(transactions) ) =>
        \A k \in (Len(transactions) + 1)..Len(transactions') :
          LET t == transactions'[k]
              bi == ActiveBudget(budgets, t.user_id, t.category_id)
              period == get_budget_period_dates(budgets[bi].period, now)
              spent == get_spent_amount(transactions', t.user_id, t.category_id,
                                        period.start_date, period.end_date)
              Alerted(table) ==
                  \E j \in 1..Len(table) :
                      /\ table[j].user_id = t.user_id
                      /\ table[j].alert_type = "budget_exceed"
                      /\ table[j].for_category = t.category_id
                      /\ LocalCreated(table[j]) >= period.start_date
          IN  ( /\ t.transaction_type = "expense"
                /\ bi # 0
                /\ budgets[bi].amount > 0
                /\ spent * 100 >= budgets[bi].alert_threshold * budgets[bi].amount
                /\ ~Alerted(alerts) )
              => Alerted(alerts')
      ]_vars

\* C14: every stored transaction is an income or expense event tied to a user
\* and a category: every transaction row has transaction_type 'income' or
\* 'expense', a user_id that is not null and a category_id that is not null.
C14_TransactionsTyped ==
    \A i \in 1..Len(transactions) :
        /\ transactions[i].transaction_type \in {"income", "expense"}
        /\ transactions[i].user_id # 0
        /\ transactions[i].category_id # 0

(***************************************************************************)
(* SpecSetBudget: two users set budgets through POST /budget/set and       *)
(* POST /budgets/ on their own and on each other's categories and read     *)
(* them back.                                                              *)
(***************************************************************************)
SetBudgetMaxRows == 2
SetBudgetCategories == {1, Len(categories_list) + 1, 2 * Len(categories_list) + 1}

InitSetBudget == InitDb /\ now = 0 /\ tzOffset = 0

NextSetBudget ==
    \/ register(Alice.email, Alice.username, Alice.password)
    \/ register(Bob.email, Bob.username, Bob.password)
    \/ \E uid \in {1, 2}, c \in SetBudgetCategories, amount \in BudgetAmounts :
          set_budget(uid, c, amount)
    \/ \E uid \in {1, 2}, c \in SetBudgetCategories :
          /\ Len(budgets) < SetBudgetMaxRows
          /\ create_budget(uid, BudgetInput(c, 100, "monthly", 80))
    \/ \E uid \in {1, 2} : get_budgets(uid, TRUE)
    \/ \E uid \in {1, 2} : get_budgets_status(uid)

SpecSetBudget == InitSetBudget /\ [][NextSetBudget]_vars

\* C15: POST /budget/set sets the budget for a category: when set_budget
\* answers for a category C of the caller and amount A, the answer is 200 and
\* the caller has an active budget row of amount A on C (the row get_budgets
\* and get_budgets_status read); for a category id that is not the caller's
\* the answer is 404 'Category not found' and no table changes.
C15_SetBudgetStoresBudget ==
    [][ ( resp'.op = "set_budget" /\ resp' # resp ) =>
        LET uid == resp'.caller
            c == resp'.req.category_id
        IN  IF \E i \in 1..Len(categories) :
                  categories[i].id = c /\ categories[i].user_id = uid
            THEN /\ resp'.status = 200
                 /\ \E i \in 1..Len(budgets') :
                       /\ budgets'[i].user_id = uid
                       /\ budgets'[i].category_id = c
                       /\ budgets'[i].is_active
                       /\ budgets'[i].amount = resp'.req.amount
            ELSE /\ resp'.status = 404
                 /\ resp'.detail = "Category not found"
                 /\ UNCHANGED db
      ]_vars

(***************************************************************************)
(* SpecRegister: two registrations that may overlap step by step, while    *)
(* users whose registration has returned add categories of their own.      *)
(***************************************************************************)
RegisterMaxCustom == 2
RegisterNames == {"Pets", "Others"}

InitRegister == InitDb /\ now = 0 /\ tzOffset = 0

\* the registration of user uid has returned
RegistrationReturned(uid) ==
    /\ uid \in UserIds
    /\ \A i \in 1..Len(regs) : regs[i].user_id # uid

NextRegister ==
    \/ \E u \in {Alice, Bob} :
          /\ Len(regs) < 2
          /\ register_query(u.email, u.username, u.password)
    \/ \E i \in 1..Len(regs) : register_commit_user(i)
    \/ \E i \in 1..Len(regs) : register_commit_categories(i)
    \/ \E uid \in {1, 2}, name \in RegisterNames :
          /\ RegistrationReturned(uid)
          /\ Len(Filter(categories, LAMBDA c : ~c.is_default)) < RegisterMaxCustom
          /\ create_category(uid, name)

SpecRegister == InitRegister /\ [][NextRegister]_vars

QueryMaxTx == 2

\* the example questions of the default help answer with the answers the
\* branch meant for each of them gives
HelpExamples ==
    { [query |-> QuerySpendMonth, kinds |-> {"spending"}],
      [query |-> QueryEarnMonth, kinds |-> {"income"}],
      [query |-> QueryIncomeVsExpenses, kinds |-> {"comparison"}],
      [query |-> QueryPercentage, kinds |-> {"percentage", "no_income"}],
      [query |-> QuerySaving, kinds |-> {"savings"}],
      [query |-> QueryNetBalance, kinds |-> {"balance"}],
      [query |-> QueryTopCategory, kinds |-> {"top_category", "no_expenses"}],
      [query |-> QuerySpendFood, kinds |-> {"category"}] }

Queries == { e.query : e \in HelpExamples } \cup { QuerySpentMonth, QueryHello }

InitQuery == InitDb /\ now = 0 /\ tzOffset = 0

NextQuery ==
    \/ register(Alice.email, Alice.username, Alice.password)
    \/ \E amount \in {40, 100}, c \in {1, 2}, ty \in {"income", "expense"} :
          /\ Len(transactions) < QueryMaxTx
          /\ create_transaction(1, TxInput(amount, c, now, ty))
    \/ \E query \in Queries : natural_language_query(1, query)

SpecQuery == InitQuery /\ [][NextQuery]_vars

\* C17: every example question of the default help answer of
\* natural_language_query is answered by the branch meant for it and not by
\* the help answer: spending this month by the total-spending answer, earning
\* by the income answer, income vs expenses by the comparison, the percentage
\* of income by the percentage answer, saving by the savings answer, the net
\* balance by the balance answer, the top spending category by the
\* top-category answer and spending on food by the per-category answer.
C17_HelpExamplesAnswered ==
    [][ ( resp'.op = "natural_language_query" /\ resp' # resp ) =>
        \A e \in HelpExamples :
            resp'.req = e.query => resp'.body.kind \in e.kinds
      ]_vars

(***************************************************************************)
(* SpecCurrency: a user with a monthly budget records expenses in rupees   *)
(* and in US dollars and reads the budget status.                          *)
(***************************************************************************)
CurrencyMaxTx == 3

InitCurrency == InitDb /\ now = 0 /\ tzOffset = 0

NextCurrency ==
    \/ register(Alice.email, Alice.username, Alice.password)
    \/ create_budget(1, BudgetInput(1, 1000, "monthly", 80))
    \/ \E amount \in {5, 10}, currency \in {"INR", "USD"}, ty \in {"income", "expense"} :
          /\ Len(transactions) < CurrencyMaxTx
          /\ create_transaction(1, [TxInput(amount, 1, now, ty)
                                      EXCEPT !.currency = currency])
    \/ get_budgets_status(1)

SpecCurrency == InitCurrency /\ [][NextCurrency]_vars

\* the sum of the INR equivalents of rows (NULL, written -1, does not count)
RECURSIVE SumAmountInr(_)
SumAmountInr(rows) ==
    IF rows = << >> THEN 0
    ELSE (IF Head(rows).amount_inr = -1 THEN 0 ELSE Head(rows).amount_inr)
         + SumAmountInr(Tail(rows))

\* the INR equivalent of the expenses of a budget's user and category dated
\* in the budget's current period
SpentInr(txs, budget) ==
    LET period == get_budget_period_dates(budget.period, now)
    IN  SumAmountInr(Filter(txs, LAMBDA t :
            /\ t.user_id = budget.user_id
            /\ t.category_id = budget.category_id
            /\ t.transaction_type = "expense"
            /\ t.transaction_date >= period.start_date
            /\ t.transaction_date <= period.end_date))

\* C18: the budget check uses INR amounts: the spent amount get_budget_status
\* reports for a budget is the sum of amount_inr of the user's expenses of the
\* category in the period, and create_transaction of an expense inserts a
\* budget alert exactly when that sum has reached alert_threshold * amount and
\* no alert existed.
C18_BudgetCheckUsesInr ==
    [][ /\ ( resp'.op = "get_budgets_status" /\ resp'.status = 200 /\ resp' # resp ) =>
           \A k \in 1..Len(resp'.body) :
              \E i \in 1..Len(budgets) :
                 /\ budgets[i].id = resp'.body[k].budget_id
                 /\ resp'.body[k].spent_amount = SpentInr(transactions, budgets[i])
        /\ ( /\ resp'.op = "create_transaction" /\ resp'.status = 200
             /\ Len(transactions') = Len(transactions) + 1
             /\ transactions'[Len(transactions')].transaction_type = "expense"
             /\ alerts = << >>
             /\ ActiveBudget(budgets, resp'.caller, resp'.req.category_id) # 0 ) =>
           LET b == budgets[ActiveBudget(budgets, resp'.caller, resp'.req.category_id)]
           IN  (Len(alerts') = 1) <=>
               (SpentInr(transactions', b) * 100 >= b.alert_threshold * b.amount)
      ]_vars

(***************************************************************************)
(* SpecPeriod: the clock runs through a month and into the next while a    *)
(* user with a budget records expenses and reads the budget status.        *)
(***************************************************************************)
PeriodTicks == 7
PeriodMaxTx == 2
PeriodNames == {"monthly", "weekly", "yearly"}

InitPeriod == InitDb /\ now = 0 /\ tzOffset = 0

NextPeriod ==
    \/ register(Alice.email, Alice.username, Alice.password)
    \/ \E period \in PeriodNames : create_budget(1, BudgetInput(1, 100, period, 80))
    \/ /\ Len(transactions) < PeriodMaxTx
       /\ create_transaction(1, TxInput(50, 1, now, "expense"))
    \/ get_budgets_status(1)
    \/ (now < PeriodTicks /\ Tick)

SpecPeriod == InitPeriod /\ [][NextPeriod]_vars

\* the calendar unit of a period that contains the instant t: its first and
\* its last instant
CalendarUnit(period, t) ==
    LET len == IF period = "monthly" THEN TicksPerMonth
               ELSE IF period = "weekly" THEN DaysPerWeek * TicksPerDay
               ELSE TicksPerYear
    IN  [first |-> (t \div len) * len, last |-> (t \div len) * len + len - 1]

\* C19: the period get_budget_period_dates returns contains the current
\* instant and covers the whole calendar unit: the month from its first day
\* 00:00:00 through its last day 23:59:59, the week from Monday 00:00:00
\* through Sunday 23:59:59, otherwise the year from 1 January through 31
\* December 23:59:59, so start_date <= now <= end_date at every instant; and
\* the spent amount of a monthly budget counts every expense of the category
\* dated within the current month.
C19_PeriodCoversCalendarUnit ==
    /\ [](\A period \in PeriodNames :
            LET p == get_budget_period_dates(period, now)
            IN  /\ p.start_date = CalendarUnit(period, now).first
                /\ p.end_date = CalendarUnit(period, now).last
                /\ p.start_date <= now /\ now <= p.end_date)
    /\ [][ ( resp'.op = "get_budgets_status" /\ resp'.status = 200 /\ resp' # resp ) =>
           \A k \in 1..Len(resp'.body) :
              \E i \in 1..Len(budgets) :
                 /\ budgets[i].id = resp'.body[k].budget_id
                 /\ budgets[i].period = "monthly" =>
                       resp'.body[k].spent_amount =
                          SumAmount(Filter(transactions, LAMBDA t :
                              /\ t.user_id = budgets[i].user_id
                              /\ t.category_id = budgets[i].category_id
                              /\ t.transaction_type = "expense"
                              /\ t.transaction_date >= CalendarUnit("monthly", now).first
                              /\ t.transaction_date <= CalendarUnit("monthly", now).last))
      ]_vars

(***************************************************************************)
(* SpecConcurrent: a user with a monthly budget sends expenses of the      *)
(* budgeted category in requests that overlap, each request running its    *)
(* steps in its own session.  The host is on UTC and the clock stands      *)
(* still, so all alerts fall into one period.                              *)
(***************************************************************************)
ConcurrentMaxTx == 3
ConcurrentMaxInFlight == 2
ConcurrentAmounts == {30, 90}

InitConcurrent == InitDb /\ now = 0 /\ tzOffset = 0

NextConcurrent ==
    \/ register(Alice.email, Alice.username, Alice.password)
    \/ create_budget(1, BudgetInput(1, 100, "monthly", 80))
    \/ \E amount \in ConcurrentAmounts, ty \in {"expense", "income"} :
          /\ Len(transactions) < ConcurrentMaxTx
          /\ Len(regs) < ConcurrentMaxInFlight
          /\ create_transaction_commit(1, TxInput(amount, 1, now, ty))
    \/ \E i \in 1..Len(regs) : create_transaction_check(i)
    \/ \E i \in 1..Len(regs) : create_transaction_alert(i)

SpecConcurrent == InitConcurrent /\ [][NextConcurrent]_vars

\* C20: the once-per-period alert guarantee holds under concurrency: when the
\* create_transaction requests of a user for a budgeted category have all
\* completed, however their steps overlapped, at most one budget_exceed alert
\* of that user for that category created in the budget's current period
\* exists.
C20_AtMostOnceUnderConcurrency ==
    regs = << >> =>
    \A i, j \in 1..Len(alerts) :
        LET bi == ActiveBudget(budgets, alerts[i].user_id, alerts[i].for_category)
            start_date == get_budget_period_dates(budgets[bi].period, now).start_date
        IN  ( /\ i # j
              /\ bi # 0
              /\ alerts[i].alert_type = "budget_exceed"
              /\ alerts[j].alert_type = "budget_exceed"
              /\ alerts[i].user_id = alerts[j].user_id
              /\ alerts[i].for_category = alerts[j].for_category
              /\ LocalCreated(alerts[i]) >= start_date )
            => LocalCreated(alerts[j]) < start_date

(***************************************************************************)
(* Alert deduplication and the agreement of the two budget computations    *)
(***************************************************************************)
\* a budget_exceed alert of user uid created in the period starting at
\* start_date exists in table for a category satisfying ForCategory
AlertInPeriod(table, uid, start_date, ForCategory(_)) ==
    \E j \in 1..Len(table) :
        /\ table[j].user_id = uid
        /\ table[j].alert_type = "budget_exceed"
        /\ ForCategory(table[j].for_category)
        /\ LocalCreated(table[j]) >= start_date

\* C21: alert deduplication is per category: when a request has recorded an
\* expense of a user in a budgeted category B whose period spending has
\* reached the threshold, and the only budget_exceed alerts of the user in the
\* period are for categories other than B, the alert for B is created,
\* whatever the names of the categories are.
C21_DedupPerCategory ==
    [][ ( /\ resp'.op \in {"create_transaction", "parse_sms_transactions"}
          /\ resp'.status = 200
          /\ Len(transactions') = Len(transactions) + 1 ) =>
        LET t == transactions'[Len(transactions')]
            bi == ActiveBudget(budgets, t.user_id, t.category_id)
            period == get_budget_period_dates(budgets[bi].period, now)
            spent == get_spent_amount(transactions', t.user_id, t.category_id,
                                      period.start_date, period.end_date)
        IN  ( /\ t.transaction_type = "expense"
              /\ bi # 0
              /\ budgets[bi].amount > 0
              /\ spent * 100 >= budgets[bi].alert_threshold * budgets[bi].amount
              /\ AlertInPeriod(alerts, t.user_id, period.start_date,
                               LAMBDA c : c # t.category_id)
              /\ ~AlertInPeriod(alerts, t.user_id, period.start_date,
                                LAMBDA c : c = t.category_id) )
            => AlertInPeriod(alerts', t.user_id, period.start_date,
                             LAMBDA c : c = t.category_id)
      ]_vars


\* the two computations agree on the active budget at index bi of budgets:
\* check_budget_alert, when there is no alert it would take for an existing
\* one, creates an alert iff get_budget_status reports 'warning' or
\* 'exceeded', and the title says Exceeded / Warning as the status does
CheckAgreesWithStatus(bi) ==
    LET b == budgets[bi]
        period == get_budget_period_dates(b.period, now)
        ci == CategoryOf(b.category_id)
        chk == check_budget_alert(transactions, budgets, b.user_id, b.category_id)
        st == get_budget_status(bi)
    IN  ( /\ b.is_active
          /\ ActiveBudget(budgets, b.user_id, b.category_id) = bi
          /\ ci # 0
          /\ ExistingAlert(b.user_id, period.start_date, categories[ci].name) = 0 )
        => /\ chk.outcome = "alert" <=> st.status \in {"warning", "exceeded"}
           /\ chk.outcome = "alert" =>
                 /\ chk.alert.title = AlertTitle(categories[ci].name, "exceeded")
                       <=> st.status = "exceeded"
                 /\ chk.alert.title = AlertTitle(categories[ci].name, "warning")
                       <=> st.status = "warning"

\* C22 as stated: check_budget_alert and get_budget_status agree on every
\* state, for every active budget with any amount and any alert_threshold
\* create_budget accepts.
C22_CheckAgreesWithStatus ==
    \A bi \in 1..Len(budgets) : CheckAgreesWithStatus(bi)

\* C22: check_budget_alert and get_budget_status agree on every state for
\* every active budget whose alert_threshold is at most 1.0 (100 percent):
\* the check creates an alert (deduplication aside) iff the status is
\* 'warning' or 'exceeded', with the title Exceeded iff the status is
\* 'exceeded' and Warning iff it is 'warning'.
C22_CheckAgreesWithStatusUpToFull ==
    \A bi \in 1..Len(budgets) :
        budgets[bi].alert_threshold <= 100 => CheckAgreesWithStatus(bi)

\* a budget at 80 percent of its amount exactly on its threshold, for which
\* no alert exists: the check would warn and the status is 'warning'
C22_Witness ==
    \E bi \in 1..Len(budgets) :
        /\ budgets[bi].is_active /\ budgets[bi].amount = 100
        /\ budgets[bi].alert_threshold = 80
        /\ alerts = << >>
        /\ get_budget_status(bi).status = "warning"
        /\ get_budget_status(bi).spent_amount = 80
        /\ check_budget_alert(transactions, budgets, budgets[bi].user_id,
                              budgets[bi].category_id).outcome = "alert"


(***************************************************************************)
(* SpecSmsCategory: two users whose registrations run in steps post SMS    *)
(* texts, before and after their default categories are committed.         *)
(***************************************************************************)
SmsCategoryMaxTx == 2
SmsCategoryTexts == {SmsDebit, SmsNoAmount}
SmsCategoryLabels == {"Food & Dining", "Income"}

InitSmsCategory == InitDb /\ now = 0 /\ tzOffset = 0

NextSmsCategory ==
    \/ \E u \in {Alice, Bob} :
          /\ \A i \in 1..Len(regs) : regs[i].email # u.email
          /\ register_query(u.email, u.username, u.password)
    \/ \E i \in 1..Len(regs) : register_commit_user(i)
    \/ \E i \in 1..Len(regs) : register_commit_categories(i)
    \/ \E uid \in {1, 2}, sms \in SmsCategoryTexts, label \in SmsCategoryLabels :
          /\ Len(transactions) < SmsCategoryMaxTx
          /\ parse_sms_transactions(uid, sms, label)

SpecSmsCategory == InitSmsCategory /\ [][NextSmsCategory]_vars

RegisterFailMaxRegs == 2
RegisterFailMaxUsers == 3

\* a second account that shares the username of the first
Alice2 == [email |-> "alice2@example.com", username |-> "alice", password |-> "pw3"]

InitRegisterFail == InitDb /\ now = 0 /\ tzOffset = 0

NextRegisterFail ==
    \/ \E u \in {Alice, Bob, Alice2} :
          /\ Len(regs) < RegisterFailMaxRegs
          /\ Len(users) < RegisterFailMaxUsers
          /\ register_query(u.email, u.username, u.password)
    \/ \E i \in 1..Len(regs) : register_commit_user(i)
    \/ \E i \in 1..Len(regs) : register_commit_categories(i)
    \/ \E i \in 1..Len(regs) : register_commit_categories_fails(i)

SpecRegisterFail == InitRegisterFail /\ [][NextRegisterFail]_vars

\* C24: registration is all-or-nothing: when register answers with an error
\* (400 or 500, a failure while the default categories are inserted
\* included), the request leaves no user row and no category row of its own
\* behind, so its email and username are taken afterwards only if they were
\* taken by another registration.
C24_RegisterAllOrNothing ==
    [][ ( /\ resp'.op = "register" /\ resp'.status \in {400, 500}
          /\ resp' # resp \/ regs' # regs ) =>
        /\ UNCHANGED << users, categories >>
        /\ \A i \in 1..Len(regs) :
              ( /\ regs' = RemoveAt(regs, i)
                /\ regs[i].email = resp'.req.email
                /\ regs[i].username = resp'.req.username ) =>
              \* the request has not committed a user row
              regs[i].user_id = 0
      ]_vars


(***************************************************************************)
(* SpecCsv: a user imports CSV files whose rows have amounts that are      *)
(* positive, negative or not a number.                                     *)
(***************************************************************************)
CsvMaxTx == 4
CsvMaxRows == 2

CsvFileRows ==
    { [amount |-> 90, numeric |-> TRUE, description |-> << "lunch" >>, date |-> -1,
       type |-> "expense"],
      [amount |-> -150, numeric |-> TRUE, description |-> << "salary", "deposit" >>,
       date |-> 0, type |-> "expense"],
      \* the amount cell reads 'abc'
      [amount |-> 0, numeric |-> FALSE, description |-> << "lunch" >>, date |-> -1,
       type |-> "expense"] }

CsvFiles == UNION { [1..n -> CsvFileRows] : n \in 0..CsvMaxRows }

InitCsv == InitDb /\ now = 0 /\ tzOffset = 0

NextCsv ==
    \/ register(Alice.email, Alice.username, Alice.password)
    \/ \E rows \in CsvFiles :
          /\ Len(transactions) + Len(rows) <= CsvMaxTx
          /\ import_csv(1, rows, [i \in 1..Len(rows) |-> "Food & Dining"])

SpecCsv == InitCsv /\ [][NextCsv]_vars

\* C25: import_csv is all-or-nothing: a call either adds one transaction row
\* per data row of the file, in the order of the file, and reports their
\* number as count, or, when the amount of some row is not a number, adds no
\* row at all and answers with an error; every row it adds is the caller's,
\* has an amount that is not negative and source 'csv', and the rows that
\* were there before are unchanged.
C25_ImportCsvAllOrNothing ==
    [][ ( /\ resp'.op = "import_csv"
          /\ resp' # resp \/ transactions' # transactions ) =>
        LET rows == resp'.req IN
        IF \E i \in 1..Len(rows) : ~rows[i].numeric
        THEN /\ resp'.status # 200
             /\ transactions' = transactions
        ELSE /\ resp'.status = 200
             /\ resp'.body.count = Len(rows)
             /\ Len(transactions') = Len(transactions) + Len(rows)
             /\ SubSeq(transactions', 1, Len(transactions)) = transactions
             /\ \A i \in 1..Len(rows) :
                   LET t == transactions'[Len(transactions) + i]
                   IN  /\ t.user_id = resp'.caller
                       /\ t.amount >= 0
                       /\ t.amount \in {rows[i].amount, 0 - rows[i].amount}
                       /\ t.source = "csv"
                       /\ t.description = rows[i].description
      ]_vars

\* a file whose second row has an amount that is not a number was refused
\* after an earlier file had been imported: the table holds the rows of the
\* earlier file only, one of them with the absolute value of a negative amount
C25_Witness ==
    /\ resp.op = "import_csv" /\ resp.status = 500
    /\ Len(resp.req) = 2 /\ resp.req[1].numeric /\ ~resp.req[2].numeric
    /\ Len(transactions) = 2
    /\ transactions[2].amount = 150 /\ transactions[2].source = "csv"


(***************************************************************************)
(* SpecOwnership: two users record transactions and set budgets with       *)
(* category ids of their own, of the other user and of no category.        *)
(***************************************************************************)
OwnershipMaxTx == 2
OwnershipMaxBudgets == 2
OwnershipCategories == {1, Len(categories_list) + 1, 2 * Len(categories_list) + 1}

InitOwnership == InitDb /\ now = 0 /\ tzOffset = 0

NextOwnership ==
    \/ register(Alice.email, Alice.username, Alice.password)
    \/ register(Bob.email, Bob.username, Bob.password)
    \/ \E uid \in {1, 2}, c \in OwnershipCategories :
          /\ Len(transactions) < OwnershipMaxTx
          /\ create_transaction(uid, TxInput(90, c, now, "expense"))
    \/ \E uid \in {1, 2}, c \in OwnershipCategories :
          /\ Len(budgets) < OwnershipMaxBudgets
          /\ create_budget(uid, BudgetInput(c, 100, "monthly", 80))
    \/ \E uid \in {1, 2}, c \in OwnershipCategories : set_budget(uid, c, 100)

SpecOwnership == InitOwnership /\ [][NextOwnership]_vars

\* the category row with this id exists and belongs to user uid
OwnsCategory(uid, category_id) ==
    \E i \in 1..Len(categories) :
        categories[i].id = category_id /\ categories[i].user_id = uid

\* C26: category ownership is preserved by every write: every transaction
\* with a category_id that is not null and every budget refers to a category
\* row whose user_id is the row's own user_id.
C26_CategoryOwnership ==
    /\ \A k \in 1..Len(transactions) :
          transactions[k].category_id # 0 =>
             OwnsCategory(transactions[k].user_id, transactions[k].category_id)
    /\ \A k \in 1..Len(budgets) :
          OwnsCategory(budgets[k].user_id, budgets[k].category_id)


(***************************************************************************)
(* The amount and the currency of a parsed SMS.                            *)
(***************************************************************************)
\* the symbols and codes of the currency patterns of one currency
CurrencyMarkers(currency) ==
    UNION { currency_patterns[i].markers :
              i \in { j \in 1..Len(currency_patterns) :
                        currency_patterns[j].currency = currency } }

\* the text holds `amount` right after a symbol or code of `currency`
MatchedWithCurrency(sms, currency, amount) ==
    \E i \in 1..(Len(sms) - 1) :
        /\ sms[i].k = "sym" /\ sms[i].v \in CurrencyMarkers(currency)
        /\ sms[i + 1].k = "num" /\ sms[i + 1].v = amount

\* C27: in the result of parse_sms the amount and the currency describe the
\* same figure: when the reported currency is not INR, the reported amount is
\* a number of the text that follows a symbol or code of that currency, not a
\* number matched by an INR/Rs pattern elsewhere in the text.
C27_AmountMatchedWithCurrency ==
    [][ ( /\ resp'.op = "parse_sms" /\ resp' # resp
          /\ resp'.body.currency # "INR" ) =>
        MatchedWithCurrency(resp'.req, resp'.body.currency, resp'.body.amount) ]_vars


(***************************************************************************)
(* The classifier and its file, over starts of the process.                *)
(***************************************************************************)
CategorizerMaxTrainings == 2

CategorizerDescriptions == { << "lunch" >>, << "vet", "visit" >> }

\* a label of the training set, a name of the categories list that is no
\* label of the training set, and a name that is not in the list
CategorizerLabels == {"Groceries", "Others", "Pets"}

InitCategorizer ==
    /\ users = << >> /\ categories = << >> /\ transactions = << >>
    /\ budgets = << >> /\ alerts = << >>
    /\ exchange_rates = {} /\ last_update = -1 /\ regs = << >>
    /\ now = 0 /\ tzOffset = 0
    /\ categorizer = NoCategorizer /\ model_file = NoFile
    /\ resp = Err("none", 0, << >>, 0, "")

\* the process starts, or starts again
NextCategorizer ==
    \/ TransactionCategorizer
    \/ \E description \in CategorizerDescriptions : predict(description)
    \/ \E description \in CategorizerDescriptions, category \in CategorizerLabels :
          /\ categorizer.trainings < CategorizerMaxTrainings
          /\ add_training_data(description, category)

SpecCategorizer == InitCategorizer /\ [][NextCategorizer]_vars

\* construction loads the file without training when the file exists, and
\* otherwise trains on the fixed training set and writes the file
ConstructionLoadsOrTrains ==
    [][ ( /\ resp'.op = "TransactionCategorizer"
          /\ resp' # resp \/ ml' # ml ) =>
        IF model_file.exists
        THEN /\ categorizer'.has_model /\ categorizer'.model = model_file.model
             /\ categorizer'.trainings = 0
             /\ model_file' = model_file
        ELSE /\ categorizer'.has_model /\ categorizer'.model = training_labels
             /\ categorizer'.trainings = 1
             /\ model_file' = [exists |-> TRUE, model |-> training_labels] ]_vars

\* after construction the model is present
ModelPresent == categorizer.alive => categorizer.has_model

\* predict trains nothing; a step that trains is a construction without a
\* file or add_training_data, which overwrites the file with the new model
TrainsOnlyOnRequest ==
    [][ /\ ( resp'.op = "predict" /\ resp' # resp ) => ml' = ml
        /\ ( categorizer.alive /\ resp'.op # "TransactionCategorizer"
             /\ ml' # ml ) =>
              /\ resp'.op = "add_training_data"
              /\ categorizer'.trainings = categorizer.trainings + 1
              /\ categorizer'.model = categorizer'.training_data
              /\ model_file' = [exists |-> TRUE, model |-> categorizer'.model] ]_vars

\* a predicted label is a label of the training set and a name of the
\* categories list
PredictedLabelInCategories ==
    [][ ( resp'.op = "predict" /\ resp' # resp ) =>
        /\ resp'.body \in categorizer'.training_data
        /\ resp'.body \in Rows(categories_list) ]_vars

\* C28: the classifier is fit once and cached to disk: construction loads the
\* model file without training when the file exists and otherwise trains on
\* the fixed training set and writes the file; after construction the model
\* is always present, so predict never trains, and training happens again
\* only through add_training_data, which retrains and overwrites the file;
\* every predicted label is a label of the training set and so a name of the
\* categories list.
C28_FitOnceAndLabelsInCategories ==
    /\ ConstructionLoadsOrTrains
    /\ []ModelPresent
    /\ TrainsOnlyOnRequest
    /\ PredictedLabelInCategories

====
